---- MODULE Spec2Model ----
(***************************************************************************)
(* Resilience and dispatch core of the legacy integration gateway:         *)
(*   - RetryPolicy.should_retry, ErrorHandler._classify_error and          *)
(*     ErrorHandler._create_error_response as operators (SpecPure);        *)
(*   - the @circuit breaker guarding call_azure_ml_api under concurrent    *)
(*     gateway calls (Spec);                                               *)
(*   - ErrorHandler.retry_with_backoff over a raw operation or over the    *)
(*     breaker-protected call (SpecRetry);                                 *)
(*   - ErrorHandler.handle_prediction_error with its fallback branch, as   *)
(*     an operator over the error, the context and the failing step        *)
(*     (SpecPure), and the /predict handler's use of it (Spec);            *)
(*   - batch_predict: workers under the semaphore, gather, the loop over   *)
(*     the responses and the counts (SpecBatch);                           *)
(*   - AuthenticationBridge.validate_credentials with its TokenCache       *)
(*     (SpecAuth);                                                         *)
(*   - ErrorHandler.handle_prediction_error step by step on the metrics    *)
(*     and the error log, with clear_metrics between calls (SpecHandler,   *)
(*     SpecErrorLog);                                                      *)
(*   - RetryPolicy.get_delay over policies, attempts and jitter draws      *)
(*     (SpecDelay);                                                        *)
(*   - MetricsCollector.record_request and record_batch_prediction         *)
(*     (SpecMonitor).                                                      *)
(*                                                                         *)
(* The breaker itself is the `circuitbreaker` package's CircuitBreaker     *)
(* (async-aware releases), configured by the decorator arguments in        *)
(* api_gateway.py; its transitions are written out here as that class      *)
(* performs them: the stored state is only "closed" or "open", and         *)
(* "half_open" is computed when the state is read.                         *)
(***************************************************************************)
EXTENDS Integers, Sequences, FiniteSets, TLC

VARIABLES
    now,          \* monotonic clock, in seconds
    cb,           \* the one CircuitBreaker behind call_azure_ml_api
    tasks,        \* concurrent gateway calls of call_azure_ml_api
    consecFails,  \* history: failed upstream calls since the last successful one
    everFailed,   \* history: endpoints for which an upstream call has failed
    rt,           \* one retry_with_backoff invocation
    pure,         \* inputs and results of the pure operators
    batch,        \* one /batch-predict request and its workers
    auth,         \* the AuthenticationBridge: key table, token cache, last call
    sh,           \* TokenCache and ErrorHandler state under concurrent tasks
    eh,           \* the ErrorHandler: metrics, error log, the call being handled
    backoff,      \* the latest RetryPolicy.get_delay call
    mc            \* the MetricsCollector: ServiceMetrics and the calls made

vars == <<now, cb, tasks, consecFails, everFailed, rt, pure, batch, auth, sh, eh,
          backoff, mc>>

(***************************************************************************)
(* Program constants                                                       *)
(***************************************************************************)
FailureThreshold == 5

RecoveryTimeout == 30

MaxAttempts == 3

RetryAfterSeconds == 60

(***************************************************************************)
(* Bounds of the model                                                     *)
(***************************************************************************)
MaxTime == 60

TickStep == 15

NumTasks == 2

MaxFailureCount == 10

MaxAttemptArg == 4

MaxBatch == 3

\* config.max_concurrent_requests, scaled down with the batch size
max_concurrent_requests == 2

\* the clock of the authentication bridge advances by AuthStep up to MaxAuthTime
AuthStep == 1200

\* the most dot-separated segments of a credential given to scheme detection
MaxSegments == 4

\* the most errors recorded by the concurrent tasks
MaxErrors == 3

MaxAuthTime == 7200

(***************************************************************************)
(* Exceptions.  An exception is its class, its text (str(exception)) and,  *)
(* for httpx.HTTPStatusError, the response status.                         *)
(***************************************************************************)
StatusCodes == {302, 400, 401, 403, 404, 429, 499, 500, 502, 503, 504, 599, 600}

PlainClasses ==
    {"PermissionError", "ValueError", "JSONDecodeError", "AsyncioTimeoutError",
     "HttpxTimeoutException", "HttpxConnectTimeout", "HttpxReadTimeout",
     "HttpxNetworkError", "HttpxConnectError", "ConnectionError",
     "ConnectionResetError", "CircuitBreakerError", "RuntimeError"}

Texts == {"Test error", "Authentication failed", "not authorized"}

Err(c, x, s) == [cls |-> c, text |-> x, status |-> s]

NoError == Err("None", "", 0)

Errors ==
    {Err(c, x, 0) : c \in PlainClasses, x \in Texts}
    \cup {Err("HTTPStatusError", x, s) : x \in Texts, s \in StatusCodes}

\* str.lower on the texts above.
lower(x) ==
    CASE x = "Test error"            -> "test error"
      [] x = "Authentication failed" -> "authentication failed"
      [] OTHER                       -> x

\* "auth" in s, for the lower-cased and the original texts.
contains_auth(s) == s \in {"authentication failed", "not authorized"}

\* The base class of each exception class (builtins, httpx, circuitbreaker).
Parent(c) ==
    CASE c = "HttpxConnectTimeout"   -> "HttpxTimeoutException"
      [] c = "HttpxReadTimeout"      -> "HttpxTimeoutException"
      [] c = "HttpxTimeoutException" -> "HttpxTransportError"
      [] c = "HttpxConnectError"     -> "HttpxNetworkError"
      [] c = "HttpxNetworkError"     -> "HttpxTransportError"
      [] c = "HttpxTransportError"   -> "HttpxHTTPError"
      [] c = "HTTPStatusError"       -> "HttpxHTTPError"
      [] c = "ConnectionResetError"  -> "ConnectionError"
      [] c = "ConnectionError"       -> "OSError"
      [] c = "PermissionError"       -> "OSError"
      [] c = "JSONDecodeError"       -> "ValueError"
      [] OTHER                       -> "Exception"

RECURSIVE IsSubclass(_, _)
IsSubclass(c, base) ==
    IF c = base THEN TRUE
    ELSE IF c = "Exception" THEN FALSE
    ELSE IsSubclass(Parent(c), base)

isinstance(e, bases) == \E b \in bases : IsSubclass(e.cls, b)

(***************************************************************************)
(* RetryPolicy.should_retry                                                *)
(***************************************************************************)
retryable_exceptions ==
    {"HttpxTimeoutException", "HttpxConnectTimeout", "HttpxReadTimeout",
     "HttpxNetworkError", "ConnectionError", "AsyncioTimeoutError"}

should_retry_all5xx(exception, attempt) ==
    IF attempt >= MaxAttempts THEN FALSE
    ELSE IF isinstance(exception, retryable_exceptions) THEN TRUE
    ELSE IF isinstance(exception, {"HTTPStatusError"})
         THEN exception.status = 429 \/ (exception.status >= 500 /\ exception.status < 600)
    ELSE FALSE

should_retry(exception, attempt) ==
    IF attempt >= MaxAttempts THEN FALSE
    ELSE IF isinstance(exception, retryable_exceptions) THEN TRUE
    ELSE IF isinstance(exception, {"HTTPStatusError"})
         THEN exception.status \in {429, 502, 503, 504}
    ELSE FALSE

(***************************************************************************)
(* ErrorHandler._classify_error                                            *)
(***************************************************************************)
Categories ==
    {"authentication", "authorization", "validation", "timeout", "rate_limit",
     "azure_ml_error", "network_error", "internal_error", "circuit_breaker",
     "unknown"}

Severities == {"low", "medium", "high", "critical"}

classify_error_range_first(exception) ==
    IF isinstance(exception, {"PermissionError", "ValueError"})
       /\ contains_auth(lower(exception.text))
    THEN <<"authentication", "medium">>
    ELSE IF isinstance(exception, {"AsyncioTimeoutError", "HttpxTimeoutException"})
    THEN <<"timeout", "medium">>
    ELSE IF isinstance(exception, {"HTTPStatusError"})
            /\ exception.status >= 400 /\ exception.status < 500
    THEN <<"validation", "low">>
    ELSE IF isinstance(exception, {"HTTPStatusError"})
            /\ exception.status >= 500 /\ exception.status < 600
    THEN <<"azure_ml_error", "high">>
    ELSE IF isinstance(exception, {"CircuitBreakerError"})
    THEN <<"circuit_breaker", "high">>
    ELSE IF isinstance(exception, {"HttpxNetworkError", "ConnectionError"})
    THEN <<"network_error", "medium">>
    ELSE <<"unknown", "medium">>

classify_error_status_only(exception) ==
    IF isinstance(exception, {"AsyncioTimeoutError", "HttpxTimeoutException"})
    THEN <<"timeout", "medium">>
    ELSE IF isinstance(exception, {"HTTPStatusError"}) /\ exception.status = 401
    THEN <<"authentication", "medium">>
    ELSE IF isinstance(exception, {"HTTPStatusError"}) /\ exception.status = 403
    THEN <<"authorization", "medium">>
    ELSE IF isinstance(exception, {"HTTPStatusError"}) /\ exception.status = 429
    THEN <<"rate_limit", "low">>
    ELSE IF isinstance(exception, {"HTTPStatusError"})
            /\ exception.status >= 400 /\ exception.status < 500
    THEN <<"validation", "low">>
    ELSE IF isinstance(exception, {"HTTPStatusError"})
            /\ exception.status >= 500 /\ exception.status < 600
    THEN <<"azure_ml_error", "high">>
    ELSE IF isinstance(exception, {"CircuitBreakerError"})
    THEN <<"circuit_breaker", "high">>
    ELSE IF isinstance(exception, {"HttpxNetworkError", "ConnectionError"})
    THEN <<"network_error", "medium">>
    ELSE <<"unknown", "medium">>

_classify_error(exception) ==
    IF isinstance(exception, {"PermissionError", "ValueError"})
       /\ contains_auth(lower(exception.text))
    THEN <<"authentication", "medium">>
    ELSE IF isinstance(exception, {"AsyncioTimeoutError", "HttpxTimeoutException"})
    THEN <<"timeout", "medium">>
    ELSE IF isinstance(exception, {"HTTPStatusError"}) /\ exception.status = 401
    THEN <<"authentication", "medium">>
    ELSE IF isinstance(exception, {"HTTPStatusError"}) /\ exception.status = 403
    THEN <<"authorization", "medium">>
    ELSE IF isinstance(exception, {"HTTPStatusError"}) /\ exception.status = 429
    THEN <<"rate_limit", "low">>
    ELSE IF isinstance(exception, {"HTTPStatusError"})
            /\ exception.status >= 400 /\ exception.status < 500
    THEN <<"validation", "low">>
    ELSE IF isinstance(exception, {"HTTPStatusError"})
            /\ exception.status >= 500 /\ exception.status < 600
    THEN <<"azure_ml_error", "high">>
    ELSE IF isinstance(exception, {"CircuitBreakerError"})
    THEN <<"circuit_breaker", "high">>
    ELSE IF isinstance(exception, {"HttpxNetworkError", "ConnectionError"})
    THEN <<"network_error", "medium">>
    ELSE <<"unknown", "medium">>

(***************************************************************************)
(* ErrorHandler._create_error_response                                     *)
(***************************************************************************)
NoRetryAfter == -1

status_code_map_cb500(category) ==
    CASE category = "authentication"  -> 401
      [] category = "authorization"   -> 403
      [] category = "validation"      -> 400
      [] category = "timeout"         -> 408
      [] category = "rate_limit"      -> 429
      [] category = "azure_ml_error"  -> 502
      [] category = "network_error"   -> 503
      [] category = "circuit_breaker" -> 500
      [] category = "internal_error"  -> 500
      [] category = "unknown"         -> 500
      [] OTHER                        -> 500

status_code_map(category) ==
    CASE category = "authentication"  -> 401
      [] category = "authorization"   -> 403
      [] category = "validation"      -> 400
      [] category = "timeout"         -> 408
      [] category = "rate_limit"      -> 429
      [] category = "azure_ml_error"  -> 502
      [] category = "network_error"   -> 503
      [] category = "circuit_breaker" -> 503
      [] category = "internal_error"  -> 500
      [] category = "unknown"         -> 500
      [] OTHER                        -> 500

message_map(category) ==
    CASE category = "authentication"  -> "Authentication failed"
      [] category = "authorization"   -> "Access denied"
      [] category = "validation"      -> "Invalid request data"
      [] category = "timeout"         -> "Request timeout"
      [] category = "rate_limit"      -> "Rate limit exceeded"
      [] category = "azure_ml_error"  -> "ML service temporarily unavailable"
      [] category = "network_error"   -> "Network connectivity issue"
      [] category = "circuit_breaker" -> "Service temporarily unavailable"
      [] category = "internal_error"  -> "Internal server error"
      [] category = "unknown"         -> "An unexpected error occurred"
      [] OTHER                        -> "An error occurred"

retry_after_for(category) ==
    IF category \in {"rate_limit", "circuit_breaker"} THEN RetryAfterSeconds
    ELSE NoRetryAfter

\* None, where the response carries a string or nothing.
NoDetail == "<None>"

\* str(exception)
str(exception) == exception.text

\* str.upper on the values of ErrorCategory and ErrorSeverity.
upper(x) ==
    CASE x = "authentication"  -> "AUTHENTICATION"
      [] x = "authorization"   -> "AUTHORIZATION"
      [] x = "validation"      -> "VALIDATION"
      [] x = "timeout"         -> "TIMEOUT"
      [] x = "rate_limit"      -> "RATE_LIMIT"
      [] x = "azure_ml_error"  -> "AZURE_ML_ERROR"
      [] x = "network_error"   -> "NETWORK_ERROR"
      [] x = "internal_error"  -> "INTERNAL_ERROR"
      [] x = "circuit_breaker" -> "CIRCUIT_BREAKER"
      [] x = "unknown"         -> "UNKNOWN"
      [] x = "low"             -> "LOW"
      [] x = "medium"          -> "MEDIUM"
      [] x = "high"            -> "HIGH"
      [] x = "critical"        -> "CRITICAL"
      [] OTHER                 -> x

\* The two context classes handed to the error handler: ErrorContext (the
\* handler's own dataclass, as built by its callers in the test suite) and the
\* gateway's RequestContext (what predict and batch_predict pass).
ErrorContext == [type |-> "ErrorContext", request_id |-> "test_123"]

RequestContext == [type |-> "RequestContext", request_id |-> "req_1"]

Contexts == {ErrorContext, RequestContext}

\* The fields of each context dataclass.
hasattr(context, name) ==
    IF context.type = "ErrorContext"
    THEN name \in {"request_id", "correlation_id", "user_id", "endpoint", "method",
                   "timestamp", "processing_time", "retry_count"}
    ELSE name \in {"request_id", "correlation_id", "start_time", "legacy_format",
                   "auth_token"}

detail_always(exception, severity) == str(exception)

\* detail=str(exception) if severity in [HIGH, CRITICAL] else None
detail_for(exception, severity) ==
    IF severity \in {"high", "critical"} THEN str(exception) ELSE NoDetail

\* error_code=f"{category.value.upper()}_{severity.value.upper()}"
error_code_for(category, severity) == upper(category) \o "_" \o upper(severity)

_create_error_response(exception, category, severity, context) ==
    [type        |-> "ErrorResponse",
     status_code |-> status_code_map(category),
     error_code  |-> error_code_for(category, severity),
     message     |-> message_map(category),
     detail      |-> detail_for(exception, severity),
     category    |-> category,
     severity    |-> severity,
     request_id  |-> context.request_id,
     retry_after |-> retry_after_for(category)]

NoResponse ==
    [type |-> "None", status_code |-> 0, error_code |-> "", message |-> "",
     detail |-> NoDetail, category |-> "", severity |-> "", request_id |-> "",
     retry_after |-> NoRetryAfter]

\* handle_prediction_error's first two steps: classify, then build the response.
classified_response(exception, context) ==
    _create_error_response(exception, _classify_error(exception)[1],
                          _classify_error(exception)[2], context)

(***************************************************************************)
(* ErrorHandler.handle_prediction_error.  The body of its try block is     *)
(* five steps; a step either completes or raises.  A step raises because   *)
(* of what it is given (a context without the attribute it reads) or       *)
(* because something it calls fails (fault names the step where that       *)
(* happens, "none" when nothing fails).                                    *)
(***************************************************************************)
Faults == {"none", "classify", "create", "metrics", "log", "alert"}

FaultError(step) == Err("RuntimeError", step, 0)

\* AttributeError: '<type>' object has no attribute '<name>'
MissingAttribute(name) == Err("AttributeError", name, 0)

\* category, severity = self._classify_error(exception)
_classify_error_raises(fault) ==
    IF fault = "classify" THEN FaultError("classify") ELSE NoError

\* _create_error_response reads context.request_id and context.correlation_id.
_create_error_response_raises(context, fault) ==
    IF ~hasattr(context, "request_id") THEN MissingAttribute("request_id")
    ELSE IF fault = "create" THEN FaultError("create")
    ELSE NoError

\* _record_error_metrics updates the counters and reads nothing of the context.
_record_error_metrics_raises(fault) ==
    IF fault = "metrics" THEN FaultError("metrics") ELSE NoError

\* _log_error first builds log_data from the context, endpoint being the first
\* field read that only ErrorContext has.
_log_error_raises(context, fault) ==
    IF ~hasattr(context, "endpoint") THEN MissingAttribute("endpoint")
    ELSE IF fault = "log" THEN FaultError("log")
    ELSE NoError

alert_check_propagates(fault) ==
    IF fault = "alert" THEN FaultError("alert") ELSE NoError

\* _check_alert_conditions wraps its whole body in try / except Exception and
\* only logs what it catches.
_check_alert_conditions_raises(fault) == NoError

\* The exception that ends the try block, NoError when all five steps complete.
try_block_raises(context, fault) ==
    IF _classify_error_raises(fault) # NoError
    THEN _classify_error_raises(fault)
    ELSE IF _create_error_response_raises(context, fault) # NoError
    THEN _create_error_response_raises(context, fault)
    ELSE IF _record_error_metrics_raises(fault) # NoError
    THEN _record_error_metrics_raises(fault)
    ELSE IF _log_error_raises(context, fault) # NoError
    THEN _log_error_raises(context, fault)
    ELSE _check_alert_conditions_raises(fault)

\* The ErrorResponse built in the except branch.
fallback_response(e, context) ==
    [type        |-> "ErrorResponse",
     status_code |-> 500,
     error_code  |-> "HANDLER_ERROR",
     message     |-> "Internal error in error handler",
     detail      |-> str(e),
     category    |-> "internal_error",
     severity    |-> "critical",
     request_id  |-> context.request_id,
     retry_after |-> NoRetryAfter]

\* What the call gives back: the exception that leaves it (NoError when it
\* returns) and the ErrorResponse returned.
handle_prediction_error(exception, context, fault) ==
    LET e == try_block_raises(context, fault)
    IN  IF e = NoError
        THEN [raised |-> NoError, response |-> classified_response(exception, context)]
        ELSE IF isinstance(e, {"Exception"})
        THEN [raised |-> NoError, response |-> fallback_response(e, context)]
        ELSE [raised |-> e, response |-> NoResponse]

(***************************************************************************)
(* The circuit breaker behind call_azure_ml_api.  One CircuitBreaker       *)
(* object is created when the module is loaded, whatever endpoint a call   *)
(* is addressed to.                                                        *)
(***************************************************************************)
Endpoints == {"model_a", "model_b"}

CircuitOpen == Err("CircuitBreakerError", "Test error", 0)

UpstreamErrors ==
    {Err("HttpxReadTimeout", "Test error", 0),
     Err("HTTPStatusError", "Test error", 503),
     Err("HTTPStatusError", "Test error", 500)}

\* ErrorHandlingConfig.request_timeout, in seconds: the time a request may
\* take; also the timeout of the client in call_azure_ml_api.
request_timeout == 30

\* CircuitBreaker.__init__: closed, no failures, _opened = monotonic().
NewBreaker == [state |-> "closed", failure_count |-> 0, opened |-> 0]

\* CircuitBreaker.open_remaining, before rounding: what is left of the cooldown.
open_remaining(b, t) == (b.opened + RecoveryTimeout) - t

\* CircuitBreaker.state: "half_open" is never stored, it is an "open" read late.
CBState(b, t) ==
    IF b.state = "open" /\ open_remaining(b, t) <= 0 THEN "half_open" ELSE b.state

\* CircuitBreaker.opened: the wrapper raises CircuitBreakerError when this holds.
Opened(b, t) == CBState(b, t) = "open"

call_failed_above_threshold(b, t) ==
    IF b.failure_count + 1 > FailureThreshold
    THEN [state |-> "open", failure_count |-> b.failure_count + 1, opened |-> t]
    ELSE [b EXCEPT !.failure_count = b.failure_count + 1]

\* CircuitBreaker.__call_failed
call_failed(b, t) ==
    IF b.failure_count + 1 >= FailureThreshold
    THEN [state |-> "open", failure_count |-> b.failure_count + 1, opened |-> t]
    ELSE [b EXCEPT !.failure_count = b.failure_count + 1]

\* CircuitBreaker.__call_succeeded
call_succeeded(b) == [b EXCEPT !.state = "closed", !.failure_count = 0]

\* CircuitBreaker.__exit__ with expected_exception = Exception: every raised
\* exception is a failure, a normal return is a success.
breaker_exit(b, outcome, t) ==
    IF outcome = NoError THEN call_succeeded(b) ELSE call_failed(b, t)

(***************************************************************************)
(* The /predict handler around call_azure_ml_api                           *)
(***************************************************************************)
\* x["key"]: defined for a dict; an ErrorResponse is a dataclass instance and
\* a LegacyPredictionResponse a pydantic model, neither has __getitem__.
subscriptable(x) == x.type = "dict"

NotSubscriptable == Err("TypeError", "'ErrorResponse' object is not subscriptable", 0)

HTTPException(status_code, detail) == Err("HTTPException", detail, status_code)

\* predict's `except Exception as e` branch: the exception that leaves predict.
predict_except(e) ==
    LET result == handle_prediction_error(e, RequestContext, "none")
    IN  IF result.raised # NoError THEN result.raised
        ELSE IF subscriptable(result.response)
        THEN HTTPException(result.response.status_code, result.response.detail)
        ELSE NotSubscriptable

\* The status the framework answers with: an HTTPException's own status_code,
\* 500 for any other exception that leaves a handler, 200 for a return.
http_status(left) ==
    IF left = NoError THEN 200
    ELSE IF left.cls = "HTTPException" THEN left.status
    ELSE 500

(***************************************************************************)
(* Concurrent /predict requests                                            *)
(***************************************************************************)
Tasks == 1..NumTasks

IdleTask ==
    [pc |-> "idle", endpoint |-> "", trial |-> FALSE, calls |-> 0,
     status |-> "none", error |-> NoError, left |-> NoError, http |-> 0]

InFlight == {t \in Tasks : tasks[t].pc = "inflight"}

IdleRetry ==
    [pc |-> "idle", func |-> "", attempt |-> 0, calls |-> 0, net |-> 0,
     last |-> NoError, status |-> "none", error |-> NoError, hist |-> <<>>,
     fc0 |-> 0, t0 |-> 0]

IdlePure ==
    [op |-> "idle", err |-> NoError, attempt |-> 0, category |-> "unknown",
     severity |-> "medium", retry |-> FALSE, classified |-> <<"", "">>,
     context |-> ErrorContext, fault |-> "none", raised |-> NoError,
     response |-> NoResponse]

(***************************************************************************)
(* AuthenticationBridge and its TokenCache.  A credential is the string    *)
(* the caller sent, kept as its scheme prefix and the dot-separated        *)
(* segments of what follows it.                                            *)
(***************************************************************************)
token_cache_ttl == 3600

\* _validate_api_key: expires_at = utcnow() + timedelta(hours=24), in seconds
api_key_lifetime == 86400

\* the exp claim of the signed token presented as JwtToken
JwtExp == 3600

Tok(prefix, segments) == [prefix |-> prefix, segments |-> segments]

NoToken == Tok("", <<>>)

ApiKeyToken == Tok("Bearer ", <<"valid-key">>)

BareKeyToken == Tok("", <<"valid-key">>)

UnknownKeyToken == Tok("Bearer ", <<"invalid-key">>)

JwtToken == Tok("Bearer ", <<"header", "payload", "signature">>)

\* a key that is not in the static table but has a secret in Key Vault
VaultKeyToken == Tok("Bearer ", <<"vault-key">>)

\* three dot-separated segments that jwt.decode rejects
BadJwtToken == Tok("Bearer ", <<"a", "b", "c">>)

\* "Basic " + base64("test_user:test_password")
BasicToken == Tok("Basic ", <<"dGVzdF91c2VyOnRlc3RfcGFzc3dvcmQ=">>)

\* "Basic " + base64("test_user:wrong_password")
BasicWrongPasswordToken == Tok("Basic ", <<"dGVzdF91c2VyOndyb25nX3Bhc3N3b3Jk">>)

\* "Basic " + base64("other_user:test_password")
BasicUnknownUserToken == Tok("Basic ", <<"b3RoZXJfdXNlcjp0ZXN0X3Bhc3N3b3Jk">>)

\* "Basic " + base64("test_user"): no colon in the decoded credentials
BasicMalformedToken == Tok("Basic ", <<"dGVzdF91c2Vy">>)

\* "Legacy " + Fernet encryption of "legacy_user:0:signature"
LegacyToken == Tok("Legacy ", <<"gAAAAA-issued-at-0">>)

\* "Legacy " + Fernet encryption of "legacy_user:-86400:signature"
LegacyExpiredToken == Tok("Legacy ", <<"gAAAAA-issued-a-day-before">>)

\* "Legacy " + Fernet encryption of "legacy_user:soon:signature"
LegacyMalformedToken == Tok("Legacy ", <<"gAAAAA-no-timestamp">>)

\* "Legacy " + the plain text, which is no Fernet token
LegacyPlainToken == Tok("Legacy ", <<"legacy_user:0:signature">>)

Tokens ==
    {ApiKeyToken, BareKeyToken, UnknownKeyToken, VaultKeyToken, JwtToken,
     BadJwtToken,
     BasicToken, BasicWrongPasswordToken, BasicUnknownUserToken,
     BasicMalformedToken, LegacyToken, LegacyExpiredToken,
     LegacyMalformedToken, LegacyPlainToken}

UserInfo(user_id, username, roles, permissions, expires_at) ==
    [user_id |-> user_id, username |-> username, roles |-> roles,
     permissions |-> permissions, expires_at |-> expires_at]

\* None, where a UserInfo is expected.
NoUser == UserInfo("", "", <<>>, <<>>, -1)

\* hashlib.sha256(auth_token.encode()).hexdigest()[:32]: a digest of the whole
\* string, different for the different credentials above.
_generate_cache_key(auth_token) == <<"sha256", auth_token.prefix, auth_token.segments>>

CacheKeys == {_generate_cache_key(c) : c \in Tokens}

NoEntry == [user_info |-> NoUser, expires_at |-> -1]

\* auth_token.startswith(prefix)
startswith(auth_token, prefix) == auth_token.prefix = prefix

\* A token test that accepts three segments or more.
is_jwt_three_or_more(segments) == Len(segments) >= 3

\* len(token.split(".")) == 3
_is_jwt_token(segments) == Len(segments) = 3

_detect_auth_method(auth_token) ==
    IF startswith(auth_token, "Bearer ")
    THEN IF _is_jwt_token(auth_token.segments) THEN "bearer_jwt" ELSE "api_key"
    ELSE IF startswith(auth_token, "Basic ") THEN "basic_auth"
    ELSE IF startswith(auth_token, "Legacy ") THEN "legacy_token"
    ELSE "api_key"

\* jwt.decode of the token part: the claims of JwtToken until its exp,
\* ExpiredSignatureError from then on, InvalidTokenError for any other token.
jwt_decode(segments, t) ==
    IF segments # JwtToken.segments THEN Err("InvalidTokenError", "", 0)
    ELSE IF t >= JwtExp THEN Err("ExpiredSignatureError", "", 0)
    ELSE NoError

\* Each `except ...: return None` of _validate_jwt_token answers None.
_validate_jwt_token(auth_token, t) ==
    IF jwt_decode(auth_token.segments, t) = NoError
    THEN UserInfo("test_user", "test_user", <<"user">>, <<"predict">>, JwtExp)
    ELSE NoUser

\* auth_token.replace("Bearer ", "").replace("ApiKey ", "")
api_key_of(auth_token) ==
    IF auth_token.prefix \in {"Bearer ", "ApiKey ", ""}
    THEN auth_token.segments
    ELSE <<auth_token.prefix>> \o auth_token.segments

\* What secret_client.get_secret does for the name asked: raises because no
\* such secret exists ("missing") or because the store cannot be reached
\* ("fault"), or returns the secret ("found", with the expires_at of the
\* Principal stored in its JSON value).
Secret(kind, expires_at) == [kind |-> kind, expires_at |-> expires_at]

\* No get_secret call was made.
NoSecret == Secret("none", -1)

\* the expires_at in the JSON value of the secret stored for "vault-key":
\* an instant fixed when the secret was written, ninety minutes after the
\* first call of a run
SecretExpiresAt == 5400

\* The outcomes of get_secret("api-key-" + sha256(api_key)[:16]).
get_secret(api_key) ==
    IF api_key = VaultKeyToken.segments
    THEN {Secret("found", SecretExpiresAt), Secret("fault", -1)}
    ELSE {Secret("missing", -1), Secret("fault", -1)}

\* A lookup that asks Key Vault whenever a client exists.
queries_always(auth_token, valid_api_keys, secret_client) == secret_client

\* The static table is consulted first; Key Vault only when the key is not
\* in it and a client exists.
queries_secret_store(auth_token, valid_api_keys, secret_client) ==
    api_key_of(auth_token) \notin valid_api_keys /\ secret_client

\* _validate_api_key: the table entry's Principal, else the Principal stored
\* in Key Vault; an exception of the lookup is logged and None is returned.
_validate_api_key(auth_token, valid_api_keys, secret_client, secret, t) ==
    IF api_key_of(auth_token) \in valid_api_keys
    THEN UserInfo("test_user", "test_user", <<"user">>, <<"predict">>,
                  t + api_key_lifetime)
    ELSE IF secret_client /\ secret.kind = "found"
    THEN UserInfo("vault_user", "vault_user", <<"user">>, <<"predict">>,
                  secret.expires_at)
    ELSE NoUser

\* _validate_basic_auth: expires_at = utcnow() + timedelta(hours=8)
basic_auth_lifetime == 28800

\* config.basic_auth_users of the test configuration
basic_auth_users ==
    [test_user |-> [password |-> "test_password", roles |-> <<"user">>,
                    permissions |-> <<"predict">>]]

\* base64.b64decode(encoded).decode("utf-8").split(":", 1)
decoded_credentials(encoded) ==
    IF encoded = BasicToken.segments THEN <<"test_user", "test_password">>
    ELSE IF encoded = BasicWrongPasswordToken.segments
    THEN <<"test_user", "wrong_password">>
    ELSE IF encoded = BasicUnknownUserToken.segments
    THEN <<"other_user", "test_password">>
    ELSE <<"test_user">>

\* A Basic validator that does not compare the password.
basic_auth_any_password(auth_token, t) ==
    LET parts == decoded_credentials(auth_token.segments)
    IN  IF Len(parts) = 2 /\ parts[1] \in DOMAIN basic_auth_users
        THEN UserInfo(parts[1], parts[1], <<"user">>, <<"predict">>,
                      t + basic_auth_lifetime)
        ELSE NoUser

\* _validate_basic_auth: unpacking fewer than two parts raises ValueError,
\* which `except Exception` turns into None.
_validate_basic_auth(auth_token, t) ==
    LET parts == decoded_credentials(auth_token.segments)
    IN  IF Len(parts) < 2 THEN NoUser
        ELSE IF /\ parts[1] \in DOMAIN basic_auth_users
                /\ basic_auth_users[parts[1]].password = parts[2]
        THEN UserInfo(parts[1], parts[1], basic_auth_users[parts[1]].roles,
                      basic_auth_users[parts[1]].permissions,
                      t + basic_auth_lifetime)
        ELSE NoUser

\* _validate_legacy_token: token_age < 86400, expires_at = timestamp + 86400
legacy_token_lifetime == 86400

\* A timestamp field that int() rejects.
NoTimestamp == -1000000

\* self._cipher_suite.decrypt(legacy_token.encode()).decode().split(":"),
\* with the timestamp field as int() reads it; <<>> when decrypt raises.
decrypted_parts(segments) ==
    IF segments = LegacyToken.segments THEN <<"legacy_user", 0>>
    ELSE IF segments = LegacyExpiredToken.segments
    THEN <<"legacy_user", 0 - legacy_token_lifetime>>
    ELSE IF segments = LegacyMalformedToken.segments
    THEN <<"legacy_user", NoTimestamp>>
    ELSE <<>>

\* _validate_legacy_token: a failed decrypt returns None, a failed int()
\* is caught by `except Exception`, an old token is refused.
_validate_legacy_token(auth_token, t) ==
    LET parts == decrypted_parts(auth_token.segments)
    IN  IF Len(parts) < 2 THEN NoUser
        ELSE IF parts[2] = NoTimestamp THEN NoUser
        ELSE IF t - parts[2] < legacy_token_lifetime
        THEN UserInfo(parts[1], parts[1], <<"legacy_user">>, <<"predict">>,
                      parts[2] + legacy_token_lifetime)
        ELSE NoUser

\* The scheme-specific validator chosen by validate_credentials.
validate_by(auth_method, auth_token, valid_api_keys, secret_client, secret, t) ==
    IF auth_method = "bearer_jwt" THEN _validate_jwt_token(auth_token, t)
    ELSE IF auth_method = "api_key"
    THEN _validate_api_key(auth_token, valid_api_keys, secret_client, secret, t)
    ELSE IF auth_method = "basic_auth" THEN _validate_basic_auth(auth_token, t)
    ELSE IF auth_method = "legacy_token" THEN _validate_legacy_token(auth_token, t)
    ELSE NoUser

\* authenticate_request: no Principal raises HTTPException(401) inside the
\* try block, which `except Exception` answers with another 401; NoError
\* when the Principal is returned.
authenticate_request(user_info) ==
    LET in_try == IF user_info = NoUser
                  THEN HTTPException(401, "Invalid authentication credentials")
                  ELSE NoError
    IN  IF in_try # NoError
        THEN HTTPException(401, "Authentication failed")
        ELSE NoError

cache_get_never(entry, t) == NoEntry

\* A validate_credentials that caches whatever the validator returned.
caches_any_result(user_info) == TRUE

\* `if user_info:` before token_cache.set
caches_result(user_info) == user_info # NoUser

\* A get that still returns an entry at the instant of its deadline.
cache_get_at_deadline(entry, t) ==
    IF entry # NoEntry /\ t <= entry.expires_at THEN entry ELSE NoEntry

\* TokenCache.get on the entry stored under a key: the entry while
\* utcnow() < expires_at, None (and the entry deleted) from then on.
cache_get(entry, t) ==
    IF entry # NoEntry /\ t < entry.expires_at THEN entry ELSE NoEntry

\* config.default_model_id
default_model_id == "default"

\* The target ids asked for; "" stands for a call without model_id.
ModelIds == {"", "default", "test-model", "vault-model", "other-model"}

AzureMLEndpointInfo(endpoint_url, api_key, model_name, model_version, deployment_name) ==
    [endpoint_url |-> endpoint_url, api_key |-> api_key,
     model_name |-> model_name, model_version |-> model_version,
     deployment_name |-> deployment_name]

\* None, where an AzureMLEndpointInfo is expected.
NoEndpoint == AzureMLEndpointInfo("", "", "", "", "")

\* The entry of the example configuration file for "default".
ExampleEndpoint ==
    [endpoint_url |-> "https://your-endpoint.azureml.net/score",
     api_key |-> "your-api-key", model_name |-> "your-model",
     model_version |-> "1", deployment_name |-> "default"]

\* The entry test_azure_ml_endpoint_retrieval configures for "test-model".
TestEndpoint ==
    [endpoint_url |-> "https://test.azureml.net/score", api_key |-> "test-key"]

\* The value of the secret "ml-endpoint-vault-model".
VaultEndpoint ==
    AzureMLEndpointInfo("https://vault.azureml.net/score", "vault-key-material",
                        "vault-model", "1", "blue")

\* The values config.model_endpoints takes: empty (the default), the test's,
\* the example file's, and both entries together.
EndpointConfigs ==
    {<<>>,
     [m \in {"test-model"} |-> TestEndpoint],
     [m \in {"default"} |-> ExampleEndpoint],
     [m \in {"default", "test-model"} |->
         IF m = "default" THEN ExampleEndpoint ELSE TestEndpoint]}

\* The outcomes of get_secret("ml-endpoint-" + model_id).
get_endpoint_secret(model_id) ==
    IF model_id = "vault-model" THEN {"found", "fault"} ELSE {"missing", "fault"}

\* AzureMLEndpointInfo(**endpoint_config) raises TypeError unless the dict
\* has exactly the five fields of the dataclass.
constructs(endpoint_config) ==
    DOMAIN endpoint_config =
        {"endpoint_url", "api_key", "model_name", "model_version",
         "deployment_name"}

\* _get_endpoint_info: Key Vault first when a client exists (a failed lookup
\* is logged and skipped), then config.model_endpoints; the TypeError of an
\* incomplete entry is caught by the outer except, which returns None.
_get_endpoint_info(model_id, secret_client, secret, model_endpoints) ==
    IF secret_client /\ secret = "found" THEN VaultEndpoint
    ELSE IF model_id \in DOMAIN model_endpoints
    THEN IF constructs(model_endpoints[model_id])
         THEN model_endpoints[model_id]
         ELSE NoEndpoint
    ELSE NoEndpoint

\* The latest get_azure_ml_endpoint call: the model_id given, whether the
\* endpoint cache answered, the get_secret outcome ("none": not asked), the
\* URL returned and the exception raised.
IdleResolve ==
    [seq |-> 0, model_id |-> "", cached |-> FALSE, secret |-> "none",
     url |-> "", raised |-> NoError]

\* The latest validate_credentials call: the credential, the result, whether
\* _detect_auth_method ran and which validator did; seq alternates from one
\* call to the next, after_failure tells that the call before it presented
\* the same credential and failed.
IdleCall ==
    [seq |-> 0, auth_token |-> NoToken, result |-> NoUser, detected |-> FALSE,
     validator |-> "none", secret |-> NoSecret, raised |-> NoError,
     left |-> NoError, after_failure |-> FALSE]

\* AuthenticationBridge.__init__ with the key table of the test configuration.
NewBridge ==
    [valid_api_keys |-> {<<"valid-key">>},
     secret_client |-> FALSE,
     model_endpoints |-> <<>>,
     endpoint_cache |-> [m \in ModelIds \ {""} |-> NoEndpoint],
     resolve |-> IdleResolve,
     cache |-> [k \in CacheKeys |-> NoEntry],
     returned |-> [k \in CacheKeys |-> NoUser],
     last |-> IdleCall]

Workers == 1..MaxBatch

\* A worker of the batch: not part of it ("none"), waiting for the semaphore,
\* inside call_azure_ml_api ("inflight"), or finished with what gather keeps
\* for it (NoError for a returned LegacyPredictionResponse, else the exception).
IdleWorker == [pc |-> "none", outcome |-> NoError]

NoResult ==
    [total_requests |-> -1, successful_predictions |-> -1,
     failed_predictions |-> -1, responses |-> <<>>]

IdleBatch ==
    [pc |-> "idle", n |-> 0, worker |-> [i \in Workers |-> IdleWorker],
     semaphore |-> 0, left |-> NoError, http |-> 0, result |-> NoResult]

\* The operations on state shared by the tasks: TokenCache.set, the eviction
\* in TokenCache.get, TokenCache.clear, and the recording of one error
\* (_record_error_metrics and the append of _log_error).
SharedOps == {"set", "get", "clear", "record"}

\* The asyncio.Lock an operation runs under: TokenCache._lock or
\* ErrorHandler._lock.
lock_of(op) == IF op = "record" THEN "metrics" ELSE "cache"

\* A lock that never makes a task wait.
lock_never_held(holder) == TRUE

\* `async with self._lock` goes on only while no task holds the lock.
lock_free(holder) == holder = 0

\* A task outside every operation.
IdleOp == [pc |-> "idle", op |-> "none", reg |-> 0]

\* One cache key, with no entry ("none"), an entry before its deadline
\* ("fresh") or one past it ("expired"); the counters of ErrorMetrics and the
\* length of _error_log; the history: errors whose recording has ended,
\* and failed upstream calls since the last successful one.
NewShared ==
    [lock |-> [cache |-> 0, metrics |-> 0],
     entry |-> "none",
     total_errors |-> 0,
     error_log |-> 0,
     recorded |-> 0,
     failed |-> 0,
     task |-> [t \in Tasks |-> IdleOp]]

(***************************************************************************)
(* The state of one ErrorHandler: error_metrics, _error_log and the        *)
(* handle_prediction_error call the event loop is running.  Nothing in     *)
(* the call suspends (its awaits are coroutines without a pending future,  *)
(* and _lock is never held across a suspension), so a call runs to its     *)
(* end before another call or clear_metrics starts.                        *)
(***************************************************************************)
\* `if len(self._error_log) > 1000`
error_log_capacity == 1000

\* ErrorMetrics(): a counter missing from a dict reads as 0.
ErrorMetrics ==
    [total_errors |-> 0,
     errors_by_category |-> [c \in Categories |-> 0],
     errors_by_severity |-> [s \in Severities |-> 0],
     error_rate_1min |-> 0]

\* A recording that counts the total and the category only.
record_without_severity(error_metrics, category, severity) ==
    [error_metrics EXCEPT !.total_errors = @ + 1,
                          !.errors_by_category[category] = @ + 1]

\* The locked body of _record_error_metrics.
record_error_metrics(error_metrics, category, severity) ==
    [error_metrics EXCEPT
        !.total_errors = @ + 1,
        !.errors_by_category[category] = @ + 1,
        !.errors_by_severity[severity] = @ + 1,
        !.error_rate_1min = IF error_metrics.total_errors + 1 < 60
                            THEN error_metrics.total_errors + 1 ELSE 60]

\* A log that grows without limit.
append_unbounded(error_log, entry) == Append(error_log, entry)

\* The locked body of _log_error: append, then keep the last 1000.
append_error(error_log, entry) ==
    LET appended == Append(error_log, entry)
    IN  IF Len(appended) > error_log_capacity
        THEN SubSeq(appended, Len(appended) - error_log_capacity + 1, Len(appended))
        ELSE appended

\* The alert types _check_alert_conditions hands to _trigger_alert, in order.
alerts_for(category, severity, error_rate_1min) ==
    (IF severity = "critical" THEN <<"critical_error">> ELSE <<>>)
    \o (IF error_rate_1min > 10 THEN <<"high_error_rate">> ELSE <<>>)
    \o (IF category = "circuit_breaker" THEN <<"circuit_breaker_open">> ELSE <<>>)

\* The errors handed to the handler: the tests' ValueError, an
\* authentication failure, a 429 and a 500 from upstream, a timeout and the
\* open circuit.
HandledErrors ==
    {Err("ValueError", "Test error", 0),
     Err("ValueError", "Authentication failed", 0),
     Err("HTTPStatusError", "Test error", 429),
     Err("HTTPStatusError", "Test error", 500),
     Err("HttpxTimeoutException", "Test error", 0),
     CircuitOpen}

\* No call has been made yet.
IdleHandling ==
    [pc |-> "idle", exception |-> NoError, context |-> ErrorContext,
     fault |-> "none", category |-> "", severity |-> "",
     error_response |-> NoResponse, caught |-> NoError, alerts |-> <<>>,
     returned |-> NoResponse,
     before |-> [error_metrics |-> ErrorMetrics, log_len |-> 0]]

\* ErrorHandler.__init__; handled counts the calls begun (the timestamp
\* order of the log entries).
NewHandler ==
    [error_metrics |-> ErrorMetrics, error_log |-> <<>>, handled |-> 0,
     call |-> IdleHandling]

(***************************************************************************)
(* RetryPolicy.get_delay.  Delays are in microseconds; a draw of           *)
(* random.random() is k / JitterSteps.                                     *)
(***************************************************************************)
\* the attempt numbers handed to get_delay are 0..MaxDelayAttempt
MaxDelayAttempt == 7

\* the number of steps into which the jitter's range is cut
JitterSteps == 4

RetryPolicy(base_delay, max_delay, exponential_base, jitter) ==
    [base_delay |-> base_delay, max_delay |-> max_delay,
     exponential_base |-> exponential_base, jitter |-> jitter]

\* RetryPolicy(): base_delay=1.0, max_delay=60.0, exponential_base=2.0,
\* jitter=True; the same without jitter; a policy with other arguments
\* (0.25 s, 5 s, base 3).
RetryPolicies ==
    {RetryPolicy(1000000, 60000000, 2, TRUE),
     RetryPolicy(1000000, 60000000, 2, FALSE),
     RetryPolicy(250000, 5000000, 3, TRUE)}

RECURSIVE pow(_, _)
\* base ** exponent
pow(base, exponent) ==
    IF exponent = 0 THEN 1 ELSE base * pow(base, exponent - 1)

\* A delay that is never capped.
get_delay_uncapped(policy, attempt, k) ==
    policy.base_delay * pow(policy.exponential_base, attempt)

\* get_delay: min(base_delay * exponential_base ** attempt, max_delay),
\* multiplied by 0.5 + random.random() * 0.5 when jitter is on (the factor
\* is 1.0 for the largest draws, by rounding).
get_delay(policy, attempt, k) ==
    LET delay  == policy.base_delay * pow(policy.exponential_base, attempt)
        capped == IF delay < policy.max_delay THEN delay ELSE policy.max_delay
    IN  IF policy.jitter
        THEN (capped * (JitterSteps + k)) \div (2 * JitterSteps)
        ELSE capped

\* No get_delay call has been made.
IdleBackoff ==
    [op |-> "idle", policy |-> RetryPolicy(1000000, 60000000, 2, TRUE),
     attempt |-> 0, k |-> 0, delay |-> 0]

(***************************************************************************)
(* MetricsCollector: the counters of ServiceMetrics that record_request    *)
(* and record_batch_prediction update (the timing fields, which no         *)
(* counter reads, are left out).  avg_batch_size is kept in thousandths.   *)
(***************************************************************************)
\* the most record_request and record_batch_prediction calls of a run
MaxRecorded == 3

\* the status codes recorded: the tests' 200 and 500, and the codes at the
\* edges of the success range
RecordedStatusCodes == {199, 200, 302, 399, 400, 500}

RecordedEndpoints == {"/predict", "/batch-predict", "/health"}

\* the batch sizes recorded: the tests' 5 and 10, and a batch of one
BatchSizes == {1, 5, 10}

\* ServiceMetrics()
ServiceMetrics ==
    [total_requests |-> 0, successful_requests |-> 0, failed_requests |-> 0,
     errors_by_status |-> [c \in RecordedStatusCodes |-> 0],
     predictions_made |-> 0, batch_requests |-> 0, avg_batch_size |-> 0]

\* A success test that takes only the 2xx codes.
is_success_2xx(status_code) == 200 <= status_code /\ status_code < 300

\* 200 <= status_code < 400
is_success(status_code) == 200 <= status_code /\ status_code < 400

\* The locked body of record_request.
record_request(metrics, endpoint, status_code) ==
    [metrics EXCEPT
        !.total_requests = @ + 1,
        !.successful_requests = IF is_success(status_code) THEN @ + 1 ELSE @,
        !.failed_requests = IF is_success(status_code) THEN @ ELSE @ + 1,
        !.errors_by_status[status_code] =
            IF is_success(status_code) THEN @ ELSE @ + 1,
        !.predictions_made = IF endpoint = "/predict" THEN @ + 1 ELSE @,
        !.batch_requests = IF endpoint = "/batch-predict" THEN @ + 1 ELSE @]

\* The locked body of record_batch_prediction: the average is touched only
\* when batch_requests, which record_request counts, is positive.
record_batch_prediction(metrics, batch_size) ==
    [metrics EXCEPT
        !.predictions_made = @ + batch_size,
        !.avg_batch_size =
            IF metrics.batch_requests > 0
            THEN (@ * (metrics.batch_requests - 1) + batch_size * 1000)
                     \div metrics.batch_requests
            ELSE @]

\* round(x, 1) of a value in thousandths, in tenths (ties aside)
round1(thousandths) == (thousandths + 50) \div 100

\* The "requests" and "business" parts of get_current_metrics().
get_current_metrics(metrics) ==
    [requests |-> [total |-> metrics.total_requests,
                   successful |-> metrics.successful_requests,
                   failed |-> metrics.failed_requests],
     business |-> [total_predictions |-> metrics.predictions_made,
                   batch_requests |-> metrics.batch_requests,
                   avg_batch_size |-> round1(metrics.avg_batch_size)]]

\* MetricsCollector.__init__; the history: record_request calls made, those
\* with a status code in 200..399, record_batch_prediction calls made and
\* the sum of their batch sizes.
NewCollector ==
    [metrics |-> ServiceMetrics, calls |-> 0, calls_2xx_3xx |-> 0,
     batch_calls |-> 0, batch_sum |-> 0]

Init ==
    /\ now = 0
    /\ cb = NewBreaker
    /\ tasks = [t \in Tasks |-> IdleTask]
    /\ consecFails = 0
    /\ everFailed = {}
    /\ rt = IdleRetry
    /\ pure = IdlePure
    /\ batch = IdleBatch
    /\ auth = NewBridge
    /\ sh = NewShared
    /\ eh = NewHandler
    /\ backoff = IdleBackoff
    /\ mc = NewCollector

\* Time passes.
Tick ==
    /\ now + TickStep <= MaxTime
    /\ now' = now + TickStep
    /\ UNCHANGED <<cb, tasks, consecFails, everFailed, rt, pure, batch, auth, sh, eh, backoff, mc>>

\* The wrapper finds the circuit open: CircuitBreakerError, upstream not called;
\* predict's except branch handles it.
CallRejected(t, e) ==
    /\ tasks[t].pc \in {"idle", "done"}
    /\ Opened(cb, now)
    /\ tasks' = [tasks EXCEPT ![t] =
                    [pc |-> "done", endpoint |-> e, trial |-> FALSE, calls |-> 0,
                     status |-> "raised", error |-> CircuitOpen,
                     left |-> predict_except(CircuitOpen),
                     http |-> http_status(predict_except(CircuitOpen))]]
    /\ UNCHANGED <<now, cb, consecFails, everFailed, rt, pure, batch, auth, sh, eh, backoff, mc>>

\* The wrapper finds the circuit closed or half-open: the request is posted
\* and the task is suspended until the response arrives.
CallAdmitted(t, e) ==
    /\ tasks[t].pc \in {"idle", "done"}
    /\ ~Opened(cb, now)
    /\ cb.failure_count + Cardinality(InFlight) < MaxFailureCount
    /\ tasks' = [tasks EXCEPT ![t] =
                    [pc |-> "inflight", endpoint |-> e,
                     trial |-> (CBState(cb, now) = "half_open"), calls |-> 1,
                     status |-> "none", error |-> NoError, left |-> NoError,
                     http |-> 0]]
    /\ UNCHANGED <<now, cb, consecFails, everFailed, rt, pure, batch, auth, sh, eh, backoff, mc>>

\* The upstream call returns or raises; the breaker records the outcome and
\* predict returns the transformed response or goes through its except branch.
CallReturn(t, outcome) ==
    /\ tasks[t].pc = "inflight"
    /\ cb' = breaker_exit(cb, outcome, now)
    /\ consecFails' = IF outcome = NoError THEN 0 ELSE consecFails + 1
    /\ everFailed' = IF outcome = NoError THEN everFailed
                     ELSE everFailed \cup {tasks[t].endpoint}
    /\ tasks' = [tasks EXCEPT ![t] =
                    [pc |-> "done", endpoint |-> tasks[t].endpoint,
                     trial |-> FALSE, calls |-> 1,
                     status |-> IF outcome = NoError THEN "ok" ELSE "raised",
                     error |-> outcome,
                     left |-> IF outcome = NoError THEN NoError
                              ELSE predict_except(outcome),
                     http |-> IF outcome = NoError THEN http_status(NoError)
                              ELSE http_status(predict_except(outcome))]]
    /\ UNCHANGED <<now, rt, pure, batch, auth, sh, eh, backoff, mc>>

Next ==
    \/ Tick
    \/ \E t \in Tasks, e \in Endpoints : CallRejected(t, e)
    \/ \E t \in Tasks, e \in Endpoints : CallAdmitted(t, e)
    \/ \E t \in Tasks, o \in UpstreamErrors \cup {NoError} : CallReturn(t, o)

Spec == Init /\ [][Next]_vars

(***************************************************************************)
(* Properties of the breaker under concurrent gateway calls (Spec)         *)
(***************************************************************************)
StartsCall(t) == tasks[t].pc \in {"idle", "done"} /\ tasks'[t] # tasks[t]

C2_SingleTrial ==
    Cardinality({t \in Tasks : tasks[t].pc = "inflight" /\ tasks[t].trial}) <= 1

\* C3: when a call admitted as the half-open trial completes, a success leaves
\* the breaker closed with failure_count = 0 and a failure leaves it open with
\* opened set to the time of that failure.
C3_TrialOutcome ==
    [][\A t \in Tasks :
          (tasks[t].pc = "inflight" /\ tasks[t].trial /\ tasks'[t].pc = "done")
          => IF tasks'[t].status = "ok"
             THEN cb'.state = "closed" /\ cb'.failure_count = 0
             ELSE cb'.state = "open" /\ cb'.opened = now]_vars

\* C4: a call to an endpoint is rejected with CircuitBreakerError only if some
\* upstream call to that same endpoint has failed.
C4_PerTargetCircuit ==
    \A t \in Tasks :
        (tasks[t].pc = "done" /\ tasks[t].error = CircuitOpen)
        => tasks[t].endpoint \in everFailed

\* C15: a /predict request whose upstream call failed is answered with the
\* classified response: an HTTPException leaves the handler (never another
\* exception) and the HTTP status is the status_code of the error's category
\* (502 for an upstream 5xx status error, 408 for a timeout).
C15_ClassifiedStatus ==
    \A t \in Tasks :
        (tasks[t].pc = "done" /\ tasks[t].status = "raised")
        => (/\ tasks[t].left.cls = "HTTPException"
            /\ tasks[t].http = status_code_map(_classify_error(tasks[t].error)[1]))

\* C26: the circuit phase (closed, open, or half-open once the cooldown of
\* an open circuit has run out) changes only by closed -> open,
\* open -> half-open, half-open -> closed and half-open -> open.
C26_PhaseTransitions ==
    [][\/ CBState(cb', now') = CBState(cb, now)
       \/ <<CBState(cb, now), CBState(cb', now')>> \in
              {<<"closed", "open">>, <<"open", "half_open">>,
               <<"half_open", "closed">>, <<"half_open", "open">>}]_vars

(***************************************************************************)
(* ErrorHandler.retry_with_backoff, one invocation at a time.  func is     *)
(* either a raw operation ("raw", as in test_retry_with_backoff) or the    *)
(* breaker-protected call_azure_ml_api ("protected").                      *)
(***************************************************************************)
RetryFuncs == {"raw", "protected"}

keep_first_exception(last_exception, e) ==
    IF last_exception = NoError THEN e ELSE last_exception

\* except Exception as e: last_exception = e
record_exception(last_exception, e) == e

\* A loop that sleeps and goes on after every failed attempt.
sleeps_after_every_attempt(attempt) == TRUE

sleeps_before_last(attempt) == attempt < MaxAttempts - 2

\* if attempt < max_attempts - 1: sleep, and the for loop has a next attempt
sleeps_and_continues(attempt) == attempt < MaxAttempts - 1

\* The except branch of the loop body for exception e raised in attempt
\* r.attempt: break, or fall out of the loop, and raise last_exception; or
\* sleep before the next attempt.
after_exception(r, e) ==
    LET r1 == [r EXCEPT !.last = record_exception(r.last, e),
                        !.hist = Append(r.hist, e)]
    IN  IF should_retry(e, r.attempt) /\ sleeps_and_continues(r.attempt)
        THEN [r1 EXCEPT !.pc = "backoff"]
        ELSE [r1 EXCEPT !.pc = "done", !.status = "raised", !.error = r1.last]

\* await func(*args, **kwargs) in attempt r.attempt: the protected call raises
\* CircuitBreakerError at once when the circuit is open; otherwise the upstream
\* operation is started.
invoke(r) ==
    IF r.func = "protected" /\ Opened(cb, now)
    THEN after_exception([r EXCEPT !.calls = r.calls + 1], CircuitOpen)
    ELSE [r EXCEPT !.pc = "inflight", !.calls = r.calls + 1, !.net = r.net + 1]

RetryStart(f) ==
    /\ rt.pc \in {"idle", "done"}
    /\ Opened(cb, now) \/ cb.failure_count < MaxFailureCount
    /\ rt' = invoke([IdleRetry EXCEPT !.func = f, !.fc0 = cb.failure_count,
                                      !.t0 = now])
    /\ UNCHANGED <<now, cb, tasks, consecFails, everFailed, pure, batch, auth, sh, eh, backoff, mc>>

RetryReturn(outcome) ==
    /\ rt.pc = "inflight"
    /\ cb' = IF rt.func = "protected" THEN breaker_exit(cb, outcome, now) ELSE cb
    /\ consecFails' = IF rt.func # "protected" THEN consecFails
                      ELSE IF outcome = NoError THEN 0 ELSE consecFails + 1
    /\ rt' = IF outcome = NoError
             THEN [rt EXCEPT !.pc = "done", !.status = "ok",
                             !.hist = Append(rt.hist, NoError)]
             ELSE after_exception(rt, outcome)
    /\ UNCHANGED <<now, tasks, everFailed, pure, batch, auth, sh, eh, backoff, mc>>

\* The backoff sleep ends and the next attempt starts.
RetryWake ==
    /\ rt.pc = "backoff"
    /\ Opened(cb, now) \/ cb.failure_count < MaxFailureCount
    /\ rt' = invoke([rt EXCEPT !.attempt = rt.attempt + 1])
    /\ UNCHANGED <<now, cb, tasks, consecFails, everFailed, pure, batch, auth, sh, eh, backoff, mc>>

NextRetry ==
    \/ Tick
    \/ \E f \in RetryFuncs : RetryStart(f)
    \/ \E o \in UpstreamErrors \cup {NoError} : RetryReturn(o)
    \/ RetryWake

SpecRetry == Init /\ [][NextRetry]_vars

\* The awaited operation ends (call_azure_ml_api's client has a 30 s
\* timeout) and asyncio.sleep returns once the delay is over.
SpecRetryFair ==
    /\ SpecRetry
    /\ WF_vars(\E o \in UpstreamErrors \cup {NoError} : RetryReturn(o))
    /\ WF_vars(RetryWake)

(***************************************************************************)
(* Properties of retry_with_backoff (SpecRetry)                            *)
(***************************************************************************)
LastOf(h) == h[Len(h)]

Retryable(e) ==
    \/ e.cls \in {"HttpxTimeoutException", "HttpxConnectTimeout", "HttpxReadTimeout",
                  "AsyncioTimeoutError", "HttpxNetworkError", "HttpxConnectError",
                  "ConnectionError", "ConnectionResetError"}
    \/ e.cls = "HTTPStatusError" /\ e.status \in {429, 502, 503, 504}

AllRetryable(h) == \A i \in 1..Len(h) : h[i] # NoError /\ Retryable(h[i])

\* C5: a finished dispatch through the breaker has changed failure_count by
\* its final outcome only: +1 if it gave up after at least one upstream
\* attempt, nothing added if it succeeded or was rejected at entry.
C5_OneFailurePerCall ==
    (rt.pc = "done" /\ rt.func = "protected")
    => IF rt.status = "ok" THEN cb.failure_count <= rt.fc0
       ELSE IF rt.net > 0 THEN cb.failure_count = rt.fc0 + 1
       ELSE cb.failure_count = rt.fc0

\* C6: as long as every invocation so far failed with a retryable error and
\* fewer than MaxAttempts were made, another invocation follows; once an
\* invocation succeeds the call is finished with the success value, after
\* exactly as many invocations as outcomes were observed.
C6_SuccessOnAttemptK ==
    /\ (rt.hist # <<>> /\ LastOf(rt.hist) = NoError)
       => (rt.pc = "done" /\ rt.status = "ok" /\ rt.calls = Len(rt.hist))
    /\ (rt.pc = "done" /\ rt.status = "ok")
       => (/\ rt.calls = Len(rt.hist)
           /\ rt.calls <= MaxAttempts
           /\ LastOf(rt.hist) = NoError
           /\ AllRetryable(SubSeq(rt.hist, 1, Len(rt.hist) - 1)))
    /\ (rt.hist # <<>> /\ AllRetryable(rt.hist) /\ Len(rt.hist) < MaxAttempts)
       => rt.pc \in {"backoff", "inflight"}

C6_Witness ==
    /\ rt.pc = "done"
    /\ rt.status = "ok"
    /\ rt.func = "raw"
    /\ rt.calls = MaxAttempts
    /\ Len(rt.hist) = MaxAttempts

\* C8: a dispatch that gives up raises the exception of the last invocation
\* made, and gives up only after MaxAttempts invocations or at a
\* non-retryable exception; a dispatch started while the circuit is open ends
\* at once with CircuitBreakerError and no upstream invocation.
C8_LastErrorSurfaces ==
    [][/\ (rt'.pc = "done" /\ rt'.status = "raised")
          => (/\ rt'.hist # <<>>
              /\ rt'.error = LastOf(rt'.hist)
              /\ (Len(rt'.hist) = MaxAttempts \/ ~Retryable(LastOf(rt'.hist))))
       /\ (rt.pc \in {"idle", "done"} /\ rt' # rt /\ rt'.func = "protected"
           /\ Opened(cb, now))
          => (/\ rt'.pc = "done"
              /\ rt'.error = CircuitOpen
              /\ rt'.net = 0
              /\ cb' = cb)]_vars

C8_Witness ==
    /\ rt.pc = "done"
    /\ rt.status = "raised"
    /\ Len(rt.hist) = MaxAttempts
    /\ rt.hist[1] # LastOf(rt.hist)
    /\ rt.error = LastOf(rt.hist)
    /\ rt.error # CircuitOpen

\* C27: within one retry_with_backoff call a further invocation starts only
\* out of the backoff sleep that followed a failed invocation with a
\* retryable error; a finished call has invoked the operation at least once
\* and at most MaxAttempts times; no backoff sleep is taken after the last
\* attempt or after a non-retryable error; and every call that is under way
\* ends, with a value or an error.
C27_SequentialBoundedTerminating ==
    /\ [][(rt'.calls > 1 /\ rt'.calls # rt.calls)
             => (/\ rt.pc = "backoff"
                 /\ rt'.calls = rt.calls + 1
                 /\ rt'.attempt = rt.attempt + 1
                 /\ Len(rt.hist) = rt.calls
                 /\ LastOf(rt.hist) # NoError
                 /\ Retryable(LastOf(rt.hist)))]_vars
    /\ [](rt.pc = "done"
             => (/\ rt.calls >= 1
                 /\ rt.calls <= MaxAttempts
                 /\ Len(rt.hist) = rt.calls
                 /\ rt.status \in {"ok", "raised"}))
    /\ [](rt.pc = "backoff"
             => (/\ Len(rt.hist) < MaxAttempts
                 /\ Retryable(LastOf(rt.hist))))
    /\ [](rt.pc \in {"inflight", "backoff"} => <>(rt.pc = "done"))

\* Three invocations, each failed with a retryable error: the call gave up
\* after the third without a further sleep.
C27_Witness ==
    /\ rt.pc = "done"
    /\ rt.status = "raised"
    /\ rt.func = "raw"
    /\ rt.attempt = MaxAttempts - 1
    /\ rt.calls = MaxAttempts
    /\ AllRetryable(rt.hist)

\* C30: once request_timeout seconds have passed since a retry_with_backoff
\* call began, no further attempt of that call is started; an attempt that
\* is still in flight at that instant ends there, and ends as a timeout.
C30_NoAttemptPastDeadline ==
    [][/\ (rt.pc = "backoff" /\ rt'.calls = rt.calls + 1)
          => now < rt.t0 + request_timeout
       /\ (rt.pc = "inflight" /\ rt'.pc = "inflight")
          => now' <= rt.t0 + request_timeout
       /\ (rt.pc = "inflight" /\ rt'.pc # "inflight"
              /\ now >= rt.t0 + request_timeout)
          => (/\ LastOf(rt'.hist) # NoError
              /\ _classify_error(LastOf(rt'.hist))[1] = "timeout")]_vars

(***************************************************************************)
(* batch_predict: gather over process_single_request, each worker under    *)
(* the semaphore, then the loop over the gathered responses and the        *)
(* counts (SpecBatch).                                                     *)
(***************************************************************************)
BatchInFlight == {i \in Workers : batch.worker[i].pc = "inflight"}

acquire_always(value) == TRUE

\* asyncio.Semaphore.acquire goes on without waiting only while the value is
\* positive.
can_acquire(value) == value > 0

\* An exit that gives the slot back only when the body returned normally.
release_on_success(value, outcome) ==
    IF outcome = NoError THEN value + 1 ELSE value

\* `async with semaphore` leaves through __aexit__, which releases the slot
\* whether the body returned or raised.
release(value, outcome) == value + 1

\* One element of processed_responses: the LegacyPredictionResponse of
\* request i, or the dict built for a failed request.
SuccessValue(i) ==
    [type |-> "LegacyPredictionResponse", error |-> FALSE, status_code |-> 0,
     detail |-> NoDetail, request_index |-> i]

ErrorEntry(error_response, i) ==
    [type |-> "dict", error |-> TRUE, status_code |-> error_response.status_code,
     detail |-> error_response.detail, request_index |-> i]

\* r.get("error"): dict has get, a pydantic model has not.
has_get(r) == r.type = "dict"

NoGet == Err("AttributeError", "'LegacyPredictionResponse' object has no attribute 'get'", 0)

\* for i, response in enumerate(responses): the loop from 0-based index i - 1
\* on, processed being the list built so far.  Gives the exception that ends
\* the loop (NoError when it runs to its end) and the list.
RECURSIVE process_responses(_, _, _)
process_responses(responses, i, processed) ==
    IF i > Len(responses) THEN [raised |-> NoError, processed |-> processed]
    ELSE IF responses[i] = NoError
    THEN process_responses(responses, i + 1, Append(processed, SuccessValue(i - 1)))
    ELSE LET handled == handle_prediction_error(responses[i], RequestContext, "none")
         IN  IF handled.raised # NoError
             THEN [raised |-> handled.raised, processed |-> processed]
             ELSE IF ~subscriptable(handled.response)
             THEN [raised |-> NotSubscriptable, processed |-> processed]
             ELSE process_responses(responses, i + 1,
                      Append(processed, ErrorEntry(handled.response, i - 1)))

\* The returned dict, or the exception raised while it is built.
batch_result(n, processed) ==
    IF \E k \in 1..Len(processed) : ~has_get(processed[k])
    THEN [raised |-> NoGet, result |-> NoResult]
    ELSE [raised |-> NoError,
          result |-> [total_requests |-> n,
                      successful_predictions |->
                          Cardinality({k \in 1..Len(processed) : ~processed[k].error}),
                      failed_predictions |->
                          Cardinality({k \in 1..Len(processed) : processed[k].error}),
                      responses |-> processed]]

\* Everything after gather, inside batch_predict's try: the exception caught
\* by `except Exception` (NoError when the dict is returned) and the dict.
after_gather(n, responses) ==
    LET looped == process_responses(responses, 1, <<>>)
    IN  IF looped.raised # NoError
        THEN [raised |-> looped.raised, result |-> NoResult]
        ELSE batch_result(n, looped.processed)

\* A request with n elements arrives: the semaphore is created and gather
\* schedules one worker per element.
BatchStart(n) ==
    /\ batch.pc \in {"idle", "done"}
    /\ batch' = [IdleBatch EXCEPT
                    !.pc = "gather", !.n = n,
                    !.semaphore = max_concurrent_requests,
                    !.worker = [i \in Workers |->
                                   IF i <= n THEN [pc |-> "waiting", outcome |-> NoError]
                                   ELSE IdleWorker]]
    /\ UNCHANGED <<now, cb, tasks, consecFails, everFailed, rt, pure, auth, sh, eh, backoff, mc>>

\* Worker i passes `async with semaphore` and calls call_azure_ml_api: with
\* the circuit open the call raises at once and the slot is given back,
\* otherwise the request is posted.
WorkerEnter(i) ==
    /\ batch.pc = "gather"
    /\ batch.worker[i].pc = "waiting"
    /\ can_acquire(batch.semaphore)
    /\ Opened(cb, now) \/ cb.failure_count + Cardinality(BatchInFlight) < MaxFailureCount
    /\ batch' = IF Opened(cb, now)
                THEN [batch EXCEPT !.worker[i] = [pc |-> "done", outcome |-> CircuitOpen]]
                ELSE [batch EXCEPT !.worker[i].pc = "inflight",
                                   !.semaphore = batch.semaphore - 1]
    /\ UNCHANGED <<now, cb, tasks, consecFails, everFailed, rt, pure, auth, sh, eh, backoff, mc>>

\* The upstream call of worker i returns or raises: the breaker records it,
\* the worker ends and its slot is released.
WorkerReturn(i, outcome) ==
    /\ batch.pc = "gather"
    /\ batch.worker[i].pc = "inflight"
    /\ cb' = breaker_exit(cb, outcome, now)
    /\ consecFails' = IF outcome = NoError THEN 0 ELSE consecFails + 1
    /\ batch' = [batch EXCEPT !.worker[i] = [pc |-> "done", outcome |-> outcome],
                              !.semaphore = release(batch.semaphore, outcome)]
    /\ UNCHANGED <<now, tasks, everFailed, rt, pure, auth, sh, eh, backoff, mc>>

\* gather returns once every worker has ended; the rest of batch_predict runs.
BatchFinish ==
    /\ batch.pc = "gather"
    /\ \A i \in 1..batch.n : batch.worker[i].pc = "done"
    /\ LET responses == [i \in 1..batch.n |-> batch.worker[i].outcome]
           done == after_gather(batch.n, responses)
           left == IF done.raised = NoError THEN NoError
                   ELSE HTTPException(500, "Batch prediction failed")
       IN  batch' = [batch EXCEPT !.pc = "done", !.left = left,
                                  !.http = http_status(left),
                                  !.result = done.result]
    /\ UNCHANGED <<now, cb, tasks, consecFails, everFailed, rt, pure, auth, sh, eh, backoff, mc>>

NextBatch ==
    \/ Tick
    \/ \E n \in 0..MaxBatch : BatchStart(n)
    \/ \E i \in Workers : WorkerEnter(i)
    \/ \E i \in Workers, o \in UpstreamErrors \cup {NoError} : WorkerReturn(i, o)
    \/ BatchFinish

SpecBatch == Init /\ [][NextBatch]_vars

\* A pending upstream call ends (the client has a 30 s timeout), and while
\* a slot is free and a worker waits for it, a waiting worker is woken.
SpecBatchFair ==
    /\ SpecBatch
    /\ WF_vars(\E i \in Workers : WorkerEnter(i))
    /\ WF_vars(\E i \in Workers, o \in UpstreamErrors \cup {NoError} :
                  WorkerReturn(i, o))

(***************************************************************************)
(* Properties of batch_predict (SpecBatch)                                 *)
(***************************************************************************)
Succeeded(i) == batch.worker[i].outcome = NoError

\* C16: a finished batch over n requests has returned n outputs in the
\* original order, output i being request i's success value if it succeeded
\* and an error entry tagged with index i if it failed.
C16_OrderedOutputs ==
    batch.pc = "done"
    => (/\ batch.left = NoError
        /\ Len(batch.result.responses) = batch.n
        /\ \A i \in 1..batch.n :
              IF Succeeded(i)
              THEN batch.result.responses[i] = SuccessValue(i - 1)
              ELSE /\ batch.result.responses[i].error
                   /\ batch.result.responses[i].request_index = i - 1)

\* C17: never more than max_concurrent_requests workers are inside their
\* upstream call, and a waiting worker goes on only when fewer than that many
\* are.
C17_BoundedConcurrency ==
    /\ [](Cardinality(BatchInFlight) <= max_concurrent_requests)
    /\ [][\A i \in Workers :
             (batch.worker[i].pc = "waiting" /\ batch'.worker[i].pc # "waiting")
             => Cardinality(BatchInFlight) < max_concurrent_requests]_vars

C17_Witness ==
    /\ batch.pc = "gather"
    /\ Cardinality(BatchInFlight) = max_concurrent_requests
    /\ \E i \in Workers : batch.worker[i].pc = "waiting"
    /\ batch.semaphore = 0

\* C18: when a worker of a finished batch has failed, every request of the
\* batch has still been executed to its end, the batch has returned a result
\* rather than failed, and each request that succeeded has its own success
\* value in it.
C18_FailureIsolated ==
    (batch.pc = "done" /\ \E i \in 1..batch.n : ~Succeeded(i))
    => (/\ \A j \in 1..batch.n : batch.worker[j].pc = "done"
        /\ batch.left = NoError
        /\ \A j \in 1..batch.n :
              Succeeded(j) => (/\ j <= Len(batch.result.responses)
                               /\ batch.result.responses[j] = SuccessValue(j - 1)))

\* C19: a finished batch reports total_requests = n, successful_predictions =
\* the number of requests that succeeded, failed_predictions = the number
\* that failed, and the two add up to total_requests.
C19_CountsFromOutcomes ==
    batch.pc = "done"
    => (/\ batch.left = NoError
        /\ batch.result.total_requests = batch.n
        /\ batch.result.successful_predictions
              = Cardinality({i \in 1..batch.n : Succeeded(i)})
        /\ batch.result.failed_predictions
              = Cardinality({i \in 1..batch.n : ~Succeeded(i)})
        /\ batch.result.successful_predictions + batch.result.failed_predictions
              = batch.result.total_requests)

\* C28: a worker's body runs only after it took a free slot of the limiter
\* and the slot is given back when the body ends, whether it returned or
\* raised: the free slots are the limit less the bodies running, they are
\* back at the limit once every worker has ended, and every worker that
\* waits is eventually started and ends.
C28_SlotsReturnAndNoStarvation ==
    /\ [](batch.pc = "gather"
             => batch.semaphore =
                   max_concurrent_requests - Cardinality(BatchInFlight))
    /\ [][\A i \in Workers :
             /\ (batch.worker[i].pc = "waiting" /\ batch'.worker[i].pc # "waiting")
                   => batch.semaphore > 0
             /\ (batch.worker[i].pc = "waiting" /\ batch'.worker[i].pc = "inflight")
                   => batch'.semaphore = batch.semaphore - 1
             /\ (batch.worker[i].pc = "inflight" /\ batch'.worker[i].pc = "done")
                   => batch'.semaphore = batch.semaphore + 1]_vars
    /\ []((batch.pc = "gather"
               /\ \A i \in 1..batch.n : batch.worker[i].pc = "done")
             => batch.semaphore = max_concurrent_requests)
    /\ [](batch.pc = "gather"
             => <>(\A i \in 1..batch.n : batch.worker[i].pc = "done"))

\* A full batch whose workers have all ended, one with a value and one with
\* an error from upstream: every slot is free again.
C28_Witness ==
    /\ batch.pc = "gather"
    /\ batch.n = MaxBatch
    /\ \A i \in 1..batch.n : batch.worker[i].pc = "done"
    /\ \E i \in 1..batch.n : batch.worker[i].outcome = NoError
    /\ \E i \in 1..batch.n : batch.worker[i].outcome \in UpstreamErrors
    /\ batch.semaphore = max_concurrent_requests

(***************************************************************************)
(* AuthenticationBridge.validate_credentials, one call at a time, while    *)
(* time passes and the key table is edited (SpecAuth).                     *)
(***************************************************************************)
Elapse ==
    /\ now + AuthStep <= MaxAuthTime
    /\ now' = now + AuthStep
    /\ UNCHANGED <<cb, tasks, consecFails, everFailed, rt, pure, batch, auth, sh, eh, backoff, mc>>

\* config.valid_api_keys is edited: the key is removed or put back.
ConfigChange ==
    /\ auth' = [auth EXCEPT
                   !.valid_api_keys =
                       IF <<"valid-key">> \in auth.valid_api_keys
                       THEN auth.valid_api_keys \ {<<"valid-key">>}
                       ELSE auth.valid_api_keys \cup {<<"valid-key">>}]
    /\ UNCHANGED <<now, cb, tasks, consecFails, everFailed, rt, pure, batch, sh, eh, backoff, mc>>

\* AuthenticationBridge.initialize with config.key_vault_url set.
Initialize ==
    /\ ~auth.secret_client
    /\ auth' = [auth EXCEPT !.secret_client = TRUE]
    /\ UNCHANGED <<now, cb, tasks, consecFails, everFailed, rt, pure, batch, sh, eh, backoff, mc>>

\* authenticate_request(credentials): validate_credentials, whose
\* `except Exception` returns None for whatever its body raises, and the
\* exception (if any) that then leaves authenticate_request.
ValidateCredentials(auth_token, secret) ==
    LET cache_key   == _generate_cache_key(auth_token)
        cached_user == cache_get(auth.cache[cache_key], now)
        auth_method == _detect_auth_method(auth_token)
        queried     == /\ cached_user = NoEntry
                       /\ auth_method = "api_key"
                       /\ queries_secret_store(auth_token, auth.valid_api_keys,
                                               auth.secret_client)
        user_info   == validate_by(auth_method, auth_token, auth.valid_api_keys,
                                   auth.secret_client, secret, now)
    IN  /\ secret \in (IF queried THEN get_secret(api_key_of(auth_token))
                                ELSE {NoSecret})
        /\ auth' =
              IF cached_user # NoEntry
              THEN [auth EXCEPT !.last = [seq |-> 1 - auth.last.seq,
                                          auth_token |-> auth_token,
                                          result |-> cached_user.user_info,
                                          detected |-> FALSE,
                                          validator |-> "none",
                                          secret |-> NoSecret,
                                          raised |-> NoError,
                                          left |-> authenticate_request(
                                                      cached_user.user_info),
                                          after_failure |-> FALSE]]
              ELSE [auth EXCEPT
                      !.cache[cache_key] =
                          IF caches_result(user_info)
                          THEN [user_info |-> user_info,
                                expires_at |-> now + token_cache_ttl]
                          ELSE NoEntry,
                      !.returned[cache_key] = user_info,
                      !.last = [seq |-> 1 - auth.last.seq,
                                auth_token |-> auth_token,
                                result |-> user_info,
                                detected |-> TRUE,
                                validator |-> auth_method,
                                secret |-> secret,
                                raised |-> NoError,
                                left |-> authenticate_request(user_info),
                                after_failure |->
                                    /\ auth.last.auth_token = auth_token
                                    /\ auth.last.result = NoUser]]
        /\ UNCHANGED <<now, cb, tasks, consecFails, everFailed, rt, pure, batch, sh, eh, backoff, mc>>

Secrets ==
    {NoSecret} \cup UNION {get_secret(api_key_of(c)) : c \in Tokens}

\* The calls of one run present credentials of one scheme: entries of
\* different credentials live under different cache keys and never meet.
SameScheme(c) ==
    \/ auth.last.auth_token = NoToken
    \/ _detect_auth_method(c) = _detect_auth_method(auth.last.auth_token)

NextAuth ==
    \/ Elapse
    \/ ConfigChange
    \/ Initialize
    \/ \E c \in Tokens, secret \in Secrets :
          SameScheme(c) /\ ValidateCredentials(c, secret)

SpecAuth == Init /\ [][NextAuth]_vars

\* C20: a validation of a credential whose cache entry exists and has not
\* expired returns the Principal (id, name, roles, permissions, expiry) that
\* the validation which stored the entry returned, runs neither scheme
\* detection nor a validator, and leaves the cache as it is.
C20_CachedPrincipal ==
    [][\A c \in Tokens :
          LET key == _generate_cache_key(c)
          IN  (/\ auth'.last.auth_token = c
               /\ auth'.last.seq # auth.last.seq
               /\ auth.cache[key] # NoEntry
               /\ now < auth.cache[key].expires_at)
              => (/\ auth'.last.result = auth.returned[key]
                  /\ auth'.last.result # NoUser
                  /\ ~auth'.last.detected
                  /\ auth'.last.validator = "none"
                  /\ auth'.cache = auth.cache)]_vars

C20_Witness ==
    /\ auth.last.auth_token = ApiKeyToken
    /\ ~auth.last.detected
    /\ auth.last.result # NoUser
    /\ auth.last.result.expires_at = api_key_lifetime
    /\ auth.valid_api_keys = {}
    /\ now > 0
    /\ now < token_cache_ttl

\* C21: a validation of a credential whose cache entry has reached or passed
\* its deadline gets nothing from the cache: it detects the scheme and runs
\* the validator again, returns the validator's result (a Principal issued
\* at this instant, or none) and not the stale one, and the expired entry is
\* gone from the cache (evicted, or replaced by one stored at this instant).
C21_ExpiredEntryRevalidated ==
    [][\A c \in Tokens :
          LET key == _generate_cache_key(c)
          IN  (/\ auth'.last.auth_token = c
               /\ auth'.last.seq # auth.last.seq
               /\ auth.cache[key] # NoEntry
               /\ now >= auth.cache[key].expires_at)
              => (/\ auth'.last.detected
                  /\ auth'.last.validator # "none"
                  /\ auth'.last.result =
                         validate_by(_detect_auth_method(c), c,
                                     auth.valid_api_keys, auth.secret_client,
                                     auth'.last.secret, now)
                  /\ auth'.cache[key] # auth.cache[key]
                  /\ auth'.cache[key] # NoEntry
                         => (/\ auth'.cache[key].expires_at = now + token_cache_ttl
                             /\ auth'.cache[key].user_info = auth'.last.result)
                  /\ auth'.last.result = NoUser => auth'.cache[key] = NoEntry)]_vars

\* A key removed from the table while its Principal was cached is refused by
\* the validation made at the very instant the entry's deadline is reached.
C21_Witness ==
    /\ now = token_cache_ttl
    /\ auth.last.auth_token = ApiKeyToken
    /\ auth.last.detected
    /\ auth.last.result = NoUser
    /\ auth.returned[_generate_cache_key(ApiKeyToken)] = NoUser
    /\ auth.cache[_generate_cache_key(ApiKeyToken)] = NoEntry
    /\ auth.valid_api_keys = {}

\* The credentials that no validator accepts at any time: an unknown key
\* aside, a malformed JWT, a wrong password, an unknown user, credentials
\* without a colon, a legacy token that is a day old, has no timestamp or
\* does not decrypt.
AlwaysRefused ==
    {BadJwtToken, BasicWrongPasswordToken, BasicUnknownUserToken,
     BasicMalformedToken, LegacyExpiredToken, LegacyMalformedToken,
     LegacyPlainToken}

\* The validation of credential c fails: c is refused outright, is an
\* expired JWT, or is a key missing from the table that the Secret Store
\* does not hold, is not asked for, or fails to deliver.
ValidationFails(c, valid_api_keys, secret, t) ==
    \/ c \in AlwaysRefused
    \/ c = JwtToken /\ t >= JwtExp
    \/ /\ c \in {ApiKeyToken, BareKeyToken, UnknownKeyToken, VaultKeyToken}
       /\ c.segments \notin valid_api_keys
       /\ secret.kind \in {"none", "missing", "fault"}

\* C23: a validate_credentials call never raises; when the validator it
\* runs fails (expired, malformed, unknown, bad password, Secret Store
\* fault) it returns none, the same value whatever the reason, and
\* authenticate_request answers every none with the same 401.
C23_FailureIsNone401 ==
    [][\A c \in Tokens :
          (/\ auth'.last.auth_token = c
           /\ auth'.last.seq # auth.last.seq)
          => (/\ auth'.last.raised = NoError
              /\ (/\ auth'.last.detected
                  /\ ValidationFails(c, auth.valid_api_keys,
                                     auth'.last.secret, now))
                    => auth'.last.result = NoUser
              /\ auth'.last.result = NoUser
                    => auth'.last.left =
                          HTTPException(401, "Authentication failed")
              /\ auth'.last.result # NoUser => auth'.last.left = NoError)]_vars

\* The Secret Store could not be reached while "vault-key" was validated.
C23_Witness ==
    /\ auth.last.auth_token = VaultKeyToken
    /\ auth.last.detected
    /\ auth.last.secret.kind = "fault"
    /\ auth.last.result = NoUser
    /\ auth.last.raised = NoError
    /\ http_status(auth.last.left) = 401

\* The credentials that scheme detection sends to the ApiKey validator.
ApiKeyCredentials == {ApiKeyToken, BareKeyToken, UnknownKeyToken, VaultKeyToken}

\* C24: the validation of an ApiKey credential looks the key up in the
\* static table first and asks the Secret Store only when the table misses:
\* a key of the table gives the configured Principal without any query, a
\* key in neither gives none, a key only in the store gives the stored
\* Principal.
C24_TableBeforeSecretStore ==
    [][\A c \in ApiKeyCredentials :
          (/\ auth'.last.auth_token = c
           /\ auth'.last.seq # auth.last.seq
           /\ auth'.last.detected)
          => (/\ auth'.last.validator = "api_key"
              /\ c.segments \in auth.valid_api_keys
                    => (/\ auth'.last.secret = NoSecret
                        /\ auth'.last.result =
                              UserInfo("test_user", "test_user", <<"user">>,
                                       <<"predict">>, now + api_key_lifetime))
              /\ auth'.last.secret # NoSecret
                    <=> (c.segments \notin auth.valid_api_keys
                            /\ auth.secret_client)
              /\ (c.segments \notin auth.valid_api_keys /\ c # VaultKeyToken)
                    => auth'.last.result = NoUser
              /\ auth'.last.secret.kind = "found"
                    => (/\ c = VaultKeyToken
                        /\ auth'.last.result.user_id = "vault_user"
                        /\ auth'.last.result.expires_at = SecretExpiresAt))]_vars

\* The table has lost "valid-key", the store is asked and has no such secret.
C24_Witness ==
    /\ auth.last.auth_token = ApiKeyToken
    /\ auth.last.detected
    /\ auth.valid_api_keys = {}
    /\ auth.secret_client
    /\ auth.last.secret.kind = "missing"
    /\ auth.last.result = NoUser

\* C31: every Principal that a scheme-specific validator produces (JWT,
\* ApiKey from the table or from the Secret Store, Basic, Legacy) has an
\* expiry instant strictly later than the instant of the call that made it.
C31_ExpiryInFuture ==
    [][\A c \in Tokens :
          (/\ auth'.last.auth_token = c
           /\ auth'.last.seq # auth.last.seq
           /\ auth'.last.detected
           /\ auth'.last.result # NoUser)
          => auth'.last.result.expires_at > now]_vars

\* C32: no validate_credentials call returns a Principal whose own expiry
\* instant lies before the instant of the call, whether a validator made
\* the Principal or the cache fast path returned it.
C32_NoExpiredPrincipalReturned ==
    [][\A c \in Tokens :
          (/\ auth'.last.auth_token = c
           /\ auth'.last.seq # auth.last.seq
           /\ auth'.last.result # NoUser)
          => auth'.last.result.expires_at >= now]_vars

\* C33 as stated: a validation that fails leaves the whole token cache
\* as it was.
C33_FailureLeavesCacheUnchanged ==
    [][\A c \in Tokens :
          (/\ auth'.last.auth_token = c
           /\ auth'.last.seq # auth.last.seq
           /\ auth'.last.result = NoUser)
          => auth'.cache = auth.cache]_vars

\* C33: a validation that fails inserts nothing: the entries of all other
\* credentials stay as they are and none is left under the credential's own
\* key (the only change is that the read evicts an entry found expired
\* there); every entry of the cache holds a Principal; a call that follows a
\* failure of the same credential runs detection and the validator again and
\* returns what the validator says of the table and the Secret Store as they
\* are now.
C33_FailureInsertsNothing ==
    /\ [](\A k \in CacheKeys :
            auth.cache[k] # NoEntry => auth.cache[k].user_info # NoUser)
    /\ [][\A c \in Tokens :
            LET key == _generate_cache_key(c)
            IN  (/\ auth'.last.auth_token = c
                 /\ auth'.last.seq # auth.last.seq)
                => (/\ auth'.last.result = NoUser
                       => (/\ auth'.last.detected
                           /\ auth'.cache[key] = NoEntry
                           /\ \A k \in CacheKeys \ {key} :
                                 auth'.cache[k] = auth.cache[k]
                           /\ auth.cache[key] # NoEntry
                                 => now >= auth.cache[key].expires_at)
                    /\ (auth.last.auth_token = c /\ auth.last.result = NoUser)
                       => (/\ auth'.last.detected
                           /\ auth'.last.after_failure
                           /\ auth'.last.result =
                                 validate_by(_detect_auth_method(c), c,
                                             auth.valid_api_keys,
                                             auth.secret_client,
                                             auth'.last.secret, now)))]_vars

\* "valid-key" was refused while it was missing from the table and is
\* accepted by the next call, after the table got it back; the earlier
\* Principal of the bare key is still cached.
C33_Witness ==
    /\ auth.last.auth_token = ApiKeyToken
    /\ auth.last.after_failure
    /\ auth.last.detected
    /\ auth.last.result # NoUser
    /\ auth.cache[_generate_cache_key(ApiKeyToken)] # NoEntry
    /\ auth.cache[_generate_cache_key(BareKeyToken)] # NoEntry

(***************************************************************************)
(* _detect_auth_method applied to credential strings of every shape        *)
(* (SpecDetect).                                                           *)
(***************************************************************************)
SchemePrefixes == {"Bearer ", "Basic ", "Legacy ", "ApiKey ", "bearer ", ""}

\* Every prefix followed by 1..MaxSegments segments, empty ones included
\* ("Bearer ..", "Basic x.x.x", "", "x.x.x", ...).
Credentials ==
    {Tok(p, segs) : p \in SchemePrefixes,
                    segs \in UNION {[1..n -> {"", "x"}] : n \in 1..MaxSegments}}

DetectAuthMethod(auth_token) ==
    /\ auth' = [auth EXCEPT !.last = [IdleCall EXCEPT
                                         !.auth_token = auth_token,
                                         !.detected = TRUE,
                                         !.validator =
                                             _detect_auth_method(auth_token)]]
    /\ UNCHANGED <<now, cb, tasks, consecFails, everFailed, rt, pure, batch, sh, eh, backoff, mc>>

NextDetect == \E c \in Credentials : DetectAuthMethod(c)

SpecDetect == Init /\ [][NextDetect]_vars

\* C22: scheme detection gives every credential string exactly one scheme:
\* "Bearer " followed by exactly three dot-separated segments is BearerJWT,
\* "Bearer " followed by anything else is ApiKey, "Basic " is Basic,
\* "Legacy " is LegacyToken, and every other string is ApiKey.
C22_SchemeDetection ==
    LET c == auth.last.auth_token
    IN  auth.last.detected =>
          /\ auth.last.validator \in
                 {"bearer_jwt", "api_key", "basic_auth", "legacy_token"}
          /\ auth.last.validator = "bearer_jwt"
                 <=> (c.prefix = "Bearer " /\ Len(c.segments) = 3)
          /\ auth.last.validator = "basic_auth" <=> c.prefix = "Basic "
          /\ auth.last.validator = "legacy_token" <=> c.prefix = "Legacy "
          /\ auth.last.validator = "api_key"
                 <=> \/ c.prefix = "Bearer " /\ Len(c.segments) # 3
                     \/ c.prefix \notin {"Bearer ", "Basic ", "Legacy "}

\* "Bearer x.x.x.x": four segments after the prefix, detected as an API key.
C22_Witness ==
    /\ auth.last.detected
    /\ auth.last.auth_token = Tok("Bearer ", <<"x", "x", "x", "x">>)
    /\ auth.last.validator = "api_key"

(***************************************************************************)
(* AuthenticationBridge.get_azure_ml_endpoint, one call at a time, while   *)
(* the configured endpoints are edited (SpecEndpoint).                     *)
(***************************************************************************)
\* config.model_endpoints is assigned.
SetModelEndpoints(model_endpoints) ==
    /\ auth.model_endpoints # model_endpoints
    /\ auth' = [auth EXCEPT !.model_endpoints = model_endpoints]
    /\ UNCHANGED <<now, cb, tasks, consecFails, everFailed, rt, pure, batch, sh, eh, backoff, mc>>

GetAzureMLEndpoint(model_id_arg, secret) ==
    LET model_id == IF model_id_arg = "" THEN default_model_id ELSE model_id_arg
        cached   == auth.endpoint_cache[model_id] # NoEndpoint
        endpoint_info ==
            _get_endpoint_info(model_id, auth.secret_client, secret,
                               auth.model_endpoints)
        call(url, raised) ==
            [seq |-> 1 - auth.resolve.seq, model_id |-> model_id_arg,
             cached |-> cached, secret |-> secret, url |-> url,
             raised |-> raised]
    IN  /\ secret \in (IF ~cached /\ auth.secret_client
                        THEN get_endpoint_secret(model_id) ELSE {"none"})
        /\ auth' =
              IF cached
              THEN [auth EXCEPT !.resolve =
                       call(auth.endpoint_cache[model_id].endpoint_url, NoError)]
              ELSE IF endpoint_info # NoEndpoint
              THEN [auth EXCEPT
                      !.endpoint_cache[model_id] = endpoint_info,
                      !.resolve = call(endpoint_info.endpoint_url, NoError)]
              ELSE [auth EXCEPT !.resolve =
                       call("", Err("ValueError", "No endpoint configured for model", 0))]
        /\ UNCHANGED <<now, cb, tasks, consecFails, everFailed, rt, pure, batch, sh, eh, backoff, mc>>

NextEndpoint ==
    \/ Initialize
    \/ \E cfg \in EndpointConfigs : SetModelEndpoints(cfg)
    \/ \E id \in ModelIds, secret \in {"none", "found", "missing", "fault"} :
          GetAzureMLEndpoint(id, secret)

SpecEndpoint == Init /\ [][NextEndpoint]_vars

\* The target id a call resolves: the default target when none is given.
TargetOf(model_id_arg) == IF model_id_arg = "" THEN "default" ELSE model_id_arg

\* C25: a resolution answers from the endpoint cache when the target is
\* cached (asking neither the Secret Store nor the configuration); else from
\* the Secret Store when it holds the target; else from the static
\* configuration when it has an entry for the target; the first hit is
\* returned and cached.  When all three miss, the call fails with the
\* unknown-target error and the endpoint cache is unchanged.
C25_EndpointResolution ==
    [][\A id \in ModelIds :
          LET target == TargetOf(id)
              hit    == auth.endpoint_cache[target] # NoEndpoint
              stored == auth'.resolve.secret = "found"
              listed == target \in DOMAIN auth.model_endpoints
          IN  (/\ auth'.resolve.model_id = id
               /\ auth'.resolve.seq # auth.resolve.seq)
              => (/\ hit => (/\ auth'.resolve.url =
                                   auth.endpoint_cache[target].endpoint_url
                             /\ auth'.resolve.secret = "none"
                             /\ auth'.resolve.raised = NoError
                             /\ auth'.endpoint_cache = auth.endpoint_cache)
                  /\ (~hit /\ auth.secret_client)
                        => auth'.resolve.secret # "none"
                  /\ (~hit /\ stored)
                        => (/\ auth'.resolve.url = VaultEndpoint.endpoint_url
                            /\ auth'.resolve.raised = NoError
                            /\ auth'.endpoint_cache[target] = VaultEndpoint)
                  /\ (~hit /\ ~stored /\ listed)
                        => (/\ auth'.resolve.url =
                                  auth.model_endpoints[target].endpoint_url
                            /\ auth'.resolve.raised = NoError
                            /\ auth'.endpoint_cache[target].endpoint_url =
                                  auth'.resolve.url)
                  /\ (~hit /\ ~stored /\ ~listed)
                        => (/\ auth'.resolve.raised.cls = "ValueError"
                            /\ auth'.endpoint_cache = auth.endpoint_cache))]_vars

(***************************************************************************)
(* Concurrent tasks on the state they share: the TokenCache, the error     *)
(* counters and log, the circuit breaker (SpecShared).  A task may be      *)
(* suspended between any two steps of an operation; the event loop in fact *)
(* suspends a task only at an await, so these are more interleavings than  *)
(* the program has.  The breaker's bookkeeping runs in __exit__, which     *)
(* holds no lock and has no await: it is one step.                         *)
(***************************************************************************)
InCriticalSection(l) ==
    {t \in Tasks : sh.task[t].pc \in {"locked", "read"} /\ lock_of(sh.task[t].op) = l}

\* utcnow() passes the entry's expires_at.
ShExpire ==
    /\ sh.entry = "fresh"
    /\ sh' = [sh EXCEPT !.entry = "expired"]
    /\ UNCHANGED <<now, cb, tasks, consecFails, everFailed, rt, pure, batch, auth, eh, backoff, mc>>

\* async with self._lock: the task enters the operation's body.
ShAcquire(t, op) ==
    /\ sh.task[t].pc = "idle"
    /\ lock_free(sh.lock[lock_of(op)])
    /\ op = "record"
          => sh.total_errors + Cardinality(InCriticalSection("metrics")) < MaxErrors
    /\ sh' = [sh EXCEPT !.lock[lock_of(op)] = t,
                        !.task[t] = [pc |-> "locked", op |-> op, reg |-> 0]]
    /\ UNCHANGED <<now, cb, tasks, consecFails, everFailed, rt, pure, batch, auth, eh, backoff, mc>>

\* The body reads what it is about to change: whether the entry has expired
\* (get), the value of total_errors (record).
ShRead(t) ==
    /\ sh.task[t].pc = "locked"
    /\ sh' = [sh EXCEPT !.task[t].pc = "read",
                        !.task[t].reg =
                            IF sh.task[t].op = "record" THEN sh.total_errors
                            ELSE IF sh.entry = "expired" THEN 1 ELSE 0]
    /\ UNCHANGED <<now, cb, tasks, consecFails, everFailed, rt, pure, batch, auth, eh, backoff, mc>>

\* The body writes and the lock is released: set stores a fresh entry, get
\* deletes the entry it found expired, clear pops the key, record stores
\* the incremented counter and appends to the log.
ShWrite(t) ==
    LET op == sh.task[t].op
    IN  /\ sh.task[t].pc = "read"
        /\ sh' = [sh EXCEPT
                     !.lock[lock_of(op)] = 0,
                     !.task[t] = IdleOp,
                     !.entry = IF op = "set" THEN "fresh"
                               ELSE IF op = "clear" THEN "none"
                               ELSE IF op = "get" /\ sh.task[t].reg = 1 THEN "none"
                               ELSE sh.entry,
                     !.total_errors = IF op = "record" THEN sh.task[t].reg + 1
                                      ELSE sh.total_errors,
                     !.error_log = IF op = "record" THEN sh.error_log + 1
                                   ELSE sh.error_log,
                     !.recorded = IF op = "record" THEN sh.recorded + 1
                                  ELSE sh.recorded]
        /\ UNCHANGED <<now, cb, tasks, consecFails, everFailed, rt, pure, batch, auth, eh, backoff, mc>>

\* An upstream call of some task ends and the breaker records the outcome.
ShBreakerExit(outcome) ==
    /\ cb.failure_count < MaxFailureCount
    /\ cb' = breaker_exit(cb, outcome, now)
    /\ sh' = [sh EXCEPT !.failed = IF outcome = NoError THEN 0 ELSE sh.failed + 1]
    /\ UNCHANGED <<now, tasks, consecFails, everFailed, rt, pure, batch, auth, eh, backoff, mc>>

NextShared ==
    \/ ShExpire
    \/ \E t \in Tasks, op \in SharedOps : ShAcquire(t, op)
    \/ \E t \in Tasks : ShRead(t)
    \/ \E t \in Tasks : ShWrite(t)
    \/ \E o \in UpstreamErrors \cup {NoError} : ShBreakerExit(o)

SpecShared == Init /\ [][NextShared]_vars

MaxHandled == 2

\* the most calls handled in SpecErrorLog
MaxLogged == 1003

NoCallRunning == eh.call.pc \in {"idle", "done"}

\* A request calls handle_prediction_error: the error is classified and the
\* response built; what either step raises is caught by the except branch.
HandlerBegin(exception, context, fault, limit) ==
    LET e1 == _classify_error_raises(fault)
        e2 == _create_error_response_raises(context, fault)
        e  == IF e1 # NoError THEN e1 ELSE e2
        classified == _classify_error(exception)
    IN  /\ NoCallRunning
        /\ eh.handled < limit
        /\ eh' = [eh EXCEPT
                    !.handled = @ + 1,
                    !.call =
                        [IdleHandling EXCEPT
                            !.pc = IF e # NoError THEN "except" ELSE "created",
                            !.exception = exception,
                            !.context = context,
                            !.fault = fault,
                            !.caught = e,
                            !.category = IF e # NoError THEN "" ELSE classified[1],
                            !.severity = IF e # NoError THEN "" ELSE classified[2],
                            !.error_response =
                                IF e # NoError THEN NoResponse
                                ELSE _create_error_response(
                                         exception, classified[1], classified[2],
                                         context),
                            !.before = [error_metrics |-> eh.error_metrics,
                                        log_len |-> Len(eh.error_log)]]]
        /\ UNCHANGED <<now, cb, tasks, consecFails, everFailed, rt, pure, batch, auth, sh, backoff, mc>>

\* await self._record_error_metrics(category, severity, context)
HandlerRecordMetrics ==
    LET e == _record_error_metrics_raises(eh.call.fault)
    IN  /\ eh.call.pc = "created"
        /\ eh' = IF e # NoError
                 THEN [eh EXCEPT !.call.pc = "except", !.call.caught = e]
                 ELSE [eh EXCEPT !.call.pc = "recorded",
                                 !.error_metrics =
                                     record_error_metrics(eh.error_metrics,
                                                          eh.call.category,
                                                          eh.call.severity)]
        /\ UNCHANGED <<now, cb, tasks, consecFails, everFailed, rt, pure, batch, auth, sh, backoff, mc>>

\* await self._log_error(exception, error_response, context): log_data is
\* built from the context first, the entry is appended last.
HandlerLogError ==
    LET e == _log_error_raises(eh.call.context, eh.call.fault)
    IN  /\ eh.call.pc = "recorded"
        /\ eh' = IF e # NoError
                 THEN [eh EXCEPT !.call.pc = "except", !.call.caught = e]
                 ELSE [eh EXCEPT !.call.pc = "logged",
                                 !.error_log =
                                     append_error(
                                         eh.error_log,
                                         [timestamp |-> eh.handled,
                                          error_response |-> eh.call.error_response])]
        /\ UNCHANGED <<now, cb, tasks, consecFails, everFailed, rt, pure, batch, auth, sh, backoff, mc>>

\* await self._check_alert_conditions(category, severity), whose own
\* try/except keeps a fault of the hook inside; return error_response.
HandlerCheckAlertsAndReturn ==
    /\ eh.call.pc = "logged"
    /\ eh' = [eh EXCEPT !.call.pc = "done",
                        !.call.alerts = alerts_for(eh.call.category,
                                                   eh.call.severity,
                                                   eh.error_metrics.error_rate_1min),
                        !.call.returned = eh.call.error_response]
    /\ UNCHANGED <<now, cb, tasks, consecFails, everFailed, rt, pure, batch, auth, sh, backoff, mc>>

\* except Exception as e: return the hardcoded ErrorResponse.
HandlerExcept ==
    /\ eh.call.pc = "except"
    /\ eh' = [eh EXCEPT !.call.pc = "done",
                        !.call.returned = fallback_response(eh.call.caught,
                                                            eh.call.context)]
    /\ UNCHANGED <<now, cb, tasks, consecFails, everFailed, rt, pure, batch, auth, sh, backoff, mc>>

\* ErrorHandler.clear_metrics
ClearMetrics ==
    /\ NoCallRunning
    /\ eh.error_metrics # ErrorMetrics \/ eh.error_log # <<>>
    /\ eh' = [eh EXCEPT !.error_metrics = ErrorMetrics, !.error_log = <<>>]
    /\ UNCHANGED <<now, cb, tasks, consecFails, everFailed, rt, pure, batch, auth, sh, backoff, mc>>

NextHandler ==
    \/ \E exception \in HandledErrors, context \in Contexts, fault \in Faults :
          HandlerBegin(exception, context, fault, MaxHandled)
    \/ HandlerRecordMetrics
    \/ HandlerLogError
    \/ HandlerCheckAlertsAndReturn
    \/ HandlerExcept
    \/ ClearMetrics

SpecHandler == Init /\ [][NextHandler]_vars

\* One request after the other hands the tests' error and context to the
\* handler, and nothing fails.
NextErrorLog ==
    \/ HandlerBegin(Err("ValueError", "Test error", 0), ErrorContext, "none",
                    MaxLogged)
    \/ HandlerRecordMetrics
    \/ HandlerLogError
    \/ HandlerCheckAlertsAndReturn

SpecErrorLog == Init /\ [][NextErrorLog]_vars

RECURSIVE SumOver(_, _)
\* sum(counts.values()) over the keys in S
SumOver(counts, S) ==
    IF S = {} THEN 0
    ELSE LET x == CHOOSE y \in S : TRUE
         IN  counts[x] + SumOver(counts, S \ {x})

\* C34: a handle_prediction_error call that completes on the normal path
\* has added exactly one to total_errors, to the counter of the error's
\* category and to the counter of its severity, has left every other
\* counter as it was, and has appended exactly one entry, its own response,
\* to the error log; in every state total_errors is the sum of the
\* by-category counters and the sum of the by-severity counters.
C34_MetricsCountEveryError ==
    /\ [](/\ eh.error_metrics.total_errors =
                SumOver(eh.error_metrics.errors_by_category, Categories)
          /\ eh.error_metrics.total_errors =
                SumOver(eh.error_metrics.errors_by_severity, Severities))
    /\ [][(eh.call.pc = "logged" /\ eh'.call.pc = "done")
          => LET old      == eh.call.before.error_metrics
                 new      == eh'.error_metrics
                 expected == _classify_error(eh.call.exception)
             IN  /\ new.total_errors = old.total_errors + 1
                 /\ \A c \in Categories :
                       new.errors_by_category[c] =
                          old.errors_by_category[c]
                             + (IF c = expected[1] THEN 1 ELSE 0)
                 /\ \A v \in Severities :
                       new.errors_by_severity[v] =
                          old.errors_by_severity[v]
                             + (IF v = expected[2] THEN 1 ELSE 0)
                 /\ Len(eh'.error_log) = eh.call.before.log_len + 1
                 /\ eh'.error_log[Len(eh'.error_log)].error_response =
                       eh'.call.returned
                 /\ eh'.call.returned.category = expected[1]]_vars

\* The second of two calls has completed: a rate-limit error after an
\* open-circuit error, each counted once under its category and severity.
C34_Witness ==
    /\ eh.call.pc = "done"
    /\ eh.call.caught = NoError
    /\ eh.call.returned.category = "rate_limit"
    /\ eh.error_metrics.total_errors = 2
    /\ eh.error_metrics.errors_by_category["rate_limit"] = 1
    /\ eh.error_metrics.errors_by_category["circuit_breaker"] = 1
    /\ eh.error_metrics.errors_by_severity["low"] = 1
    /\ eh.error_metrics.errors_by_severity["high"] = 1
    /\ Len(eh.error_log) = 2

\* C35: the error log never holds more than 1000 entries and its entries
\* are in order of arrival; an append to a full log drops the oldest entry,
\* moves every other entry one place down and puts the new entry last; an
\* append to a log that is not full only adds the new entry.
C35_ErrorLogBounded ==
    /\ [](/\ Len(eh.error_log) <= error_log_capacity
          /\ \A i \in 1..(Len(eh.error_log) - 1) :
                eh.error_log[i].timestamp < eh.error_log[i + 1].timestamp)
    /\ [][(eh.call.pc = "recorded" /\ eh'.call.pc = "logged")
          => IF Len(eh.error_log) = error_log_capacity
             THEN /\ Len(eh'.error_log) = error_log_capacity
                  /\ \A i \in 1..(error_log_capacity - 1) :
                        eh'.error_log[i] = eh.error_log[i + 1]
                  /\ eh'.error_log[error_log_capacity].timestamp = eh.handled
             ELSE /\ Len(eh'.error_log) = Len(eh.error_log) + 1
                  /\ \A i \in 1..Len(eh.error_log) :
                        eh'.error_log[i] = eh.error_log[i]
                  /\ eh'.error_log[Len(eh'.error_log)].timestamp = eh.handled]_vars

\* The log is full and its three oldest entries have been evicted.
C35_Witness ==
    /\ Len(eh.error_log) = error_log_capacity
    /\ eh.error_log[1].timestamp = 4
    /\ eh.error_log[error_log_capacity].timestamp = error_log_capacity + 3
    /\ eh.error_metrics.total_errors = error_log_capacity + 3

\* C36: whenever no handle_prediction_error call is running, the error log
\* holds min(total_errors, 1000) entries.
C36_LogMatchesTotal ==
    NoCallRunning
    => Len(eh.error_log) =
          (IF eh.error_metrics.total_errors < error_log_capacity
           THEN eh.error_metrics.total_errors ELSE error_log_capacity)

\* C37: every response of critical severity that handle_prediction_error
\* returns comes with a critical_error notification of the alert hook, and
\* a fault of the hook leaves the response what it is without the fault.
C37_CriticalAlerts ==
    eh.call.pc = "done"
    => (/\ eh.call.returned.severity = "critical"
           => \E i \in 1..Len(eh.call.alerts) :
                 eh.call.alerts[i] = "critical_error"
        /\ eh.call.fault = "alert"
           => eh.call.returned =
                 handle_prediction_error(eh.call.exception, eh.call.context,
                                         "none").response)

(***************************************************************************)
(* RetryPolicy.get_delay called with every policy, attempt and draw        *)
(* (SpecDelay)                                                             *)
(***************************************************************************)
GetDelay(policy, attempt, k) ==
    /\ backoff' = [op |-> "get_delay", policy |-> policy, attempt |-> attempt,
                   k |-> k, delay |-> get_delay(policy, attempt, k)]
    /\ UNCHANGED <<now, cb, tasks, consecFails, everFailed, rt, pure, batch, auth, sh, eh, mc>>

NextDelay ==
    \E policy \in RetryPolicies, attempt \in 0..MaxDelayAttempt, k \in 0..JitterSteps :
        GetDelay(policy, attempt, k)

SpecDelay == Init /\ [][NextDelay]_vars

\* min(base_delay * exponential_base ** attempt, max_delay)
CappedDelay(policy, attempt) ==
    LET uncapped == policy.base_delay * pow(policy.exponential_base, attempt)
    IN  IF uncapped < policy.max_delay THEN uncapped ELSE policy.max_delay

\* C38: the delay of every attempt lies between half the capped value
\* min(base_delay * exponential_base^attempt, max_delay) and the capped
\* value, and never exceeds max_delay; without jitter it is the capped
\* value exactly and no smaller than the delay of any earlier attempt.
C38_DelayBounds ==
    backoff.op = "get_delay"
    => LET capped == CappedDelay(backoff.policy, backoff.attempt)
       IN  /\ 2 * backoff.delay >= capped
           /\ backoff.delay <= capped
           /\ backoff.delay <= backoff.policy.max_delay
           /\ ~backoff.policy.jitter
                 => (/\ backoff.delay = capped
                     /\ \A earlier \in 0..backoff.attempt :
                           get_delay(backoff.policy, earlier, backoff.k)
                              <= backoff.delay)

\* The default policy's seventh attempt: 64 s capped to 60 s, the jitter
\* at its lowest draw giving 30 s.
C38_Witness ==
    /\ backoff.op = "get_delay"
    /\ backoff.policy = RetryPolicy(1000000, 60000000, 2, TRUE)
    /\ backoff.attempt = 6
    /\ backoff.k = 0
    /\ backoff.delay = 30000000

(***************************************************************************)
(* MetricsCollector.record_request and record_batch_prediction, one call   *)
(* after the other (SpecMonitor)                                           *)
(***************************************************************************)
RecordRequest(endpoint, status_code) ==
    /\ mc.calls + mc.batch_calls < MaxRecorded
    /\ mc' = [mc EXCEPT
                !.metrics = record_request(mc.metrics, endpoint, status_code),
                !.calls = @ + 1,
                !.calls_2xx_3xx = IF status_code \in 200..399 THEN @ + 1 ELSE @]
    /\ UNCHANGED <<now, cb, tasks, consecFails, everFailed, rt, pure, batch, auth, sh, eh, backoff>>

RecordBatchPrediction(batch_size) ==
    /\ mc.calls + mc.batch_calls < MaxRecorded
    /\ mc' = [mc EXCEPT
                !.metrics = record_batch_prediction(mc.metrics, batch_size),
                !.batch_calls = @ + 1,
                !.batch_sum = @ + batch_size]
    /\ UNCHANGED <<now, cb, tasks, consecFails, everFailed, rt, pure, batch, auth, sh, eh, backoff>>

NextMonitor ==
    \/ \E endpoint \in RecordedEndpoints, status_code \in RecordedStatusCodes :
          RecordRequest(endpoint, status_code)
    \/ \E batch_size \in BatchSizes : RecordBatchPrediction(batch_size)

SpecMonitor == Init /\ [][NextMonitor]_vars

\* C39: after any sequence of record_request calls total_requests is the
\* number of calls and the sum of successful_requests and failed_requests,
\* successful_requests being the number of calls whose status code is in
\* 200..399; get_current_metrics reports these values.
C39_RequestCounts ==
    LET reported == get_current_metrics(mc.metrics).requests
    IN  /\ mc.metrics.total_requests = mc.calls
        /\ mc.metrics.total_requests =
              mc.metrics.successful_requests + mc.metrics.failed_requests
        /\ mc.metrics.successful_requests = mc.calls_2xx_3xx
        /\ reported.total = mc.calls
        /\ reported.successful = mc.calls_2xx_3xx
        /\ reported.failed = mc.calls - mc.calls_2xx_3xx

\* Three requests recorded, two of them successful (a 302 among them) and
\* one failed with status 400.
C39_Witness ==
    /\ mc.calls = 3
    /\ mc.metrics.total_requests = 3
    /\ mc.metrics.successful_requests = 2
    /\ mc.metrics.failed_requests = 1
    /\ mc.metrics.errors_by_status[400] = 1
    /\ mc.calls_2xx_3xx = 2

\* C40: once record_batch_prediction has been called, with positive batch
\* sizes, on a collector that has recorded nothing else, the reported
\* total_predictions is the sum of the batch sizes and the reported
\* avg_batch_size is greater than 0.
C40_BatchMetrics ==
    (mc.batch_calls > 0 /\ mc.calls = 0)
    => LET reported == get_current_metrics(mc.metrics).business
       IN  /\ reported.total_predictions = mc.batch_sum
           /\ reported.avg_batch_size > 0

(***************************************************************************)
(* The pure operators applied to every input (SpecPure)                    *)
(***************************************************************************)
InitPure ==
    /\ now = 0
    /\ cb = NewBreaker
    /\ tasks = [t \in Tasks |-> IdleTask]
    /\ consecFails = 0
    /\ everFailed = {}
    /\ rt = IdleRetry
    /\ batch = IdleBatch
    /\ auth = NewBridge
    /\ sh = NewShared
    /\ eh = NewHandler
    /\ backoff = IdleBackoff
    /\ mc = NewCollector
    /\ pure \in {[IdlePure EXCEPT !.err = e, !.attempt = a, !.category = c,
                                  !.severity = s] :
                    e \in Errors, a \in 0..MaxAttemptArg, c \in Categories,
                    s \in Severities}

PureShouldRetry ==
    /\ pure.op = "idle"
    /\ pure' = [pure EXCEPT !.op = "should_retry",
                            !.retry = should_retry(pure.err, pure.attempt)]
    /\ UNCHANGED <<now, cb, tasks, consecFails, everFailed, rt, batch, auth, sh, eh, backoff, mc>>

PureClassify ==
    /\ pure.op = "idle"
    /\ pure' = [pure EXCEPT !.op = "classify_error",
                            !.classified = _classify_error(pure.err)]
    /\ UNCHANGED <<now, cb, tasks, consecFails, everFailed, rt, batch, auth, sh, eh, backoff, mc>>

PureCreateResponse ==
    /\ pure.op = "idle"
    /\ \E context \in Contexts :
          pure' = [pure EXCEPT !.op = "create_error_response",
                               !.context = context,
                               !.response = _create_error_response(
                                   pure.err, pure.category, pure.severity, context)]
    /\ UNCHANGED <<now, cb, tasks, consecFails, everFailed, rt, batch, auth, sh, eh, backoff, mc>>

PureHandle ==
    /\ pure.op = "idle"
    /\ \E context \in Contexts, fault \in Faults :
          LET result == handle_prediction_error(pure.err, context, fault)
          IN  pure' = [pure EXCEPT !.op = "handle_prediction_error",
                                   !.context = context,
                                   !.fault = fault,
                                   !.raised = result.raised,
                                   !.response = result.response]
    /\ UNCHANGED <<now, cb, tasks, consecFails, everFailed, rt, batch, auth, sh, eh, backoff, mc>>

NextPure == PureShouldRetry \/ PureClassify \/ PureCreateResponse \/ PureHandle

SpecPure == InitPure /\ [][NextPure]_vars

IsTimeout(e) ==
    e.cls \in {"AsyncioTimeoutError", "HttpxTimeoutException",
               "HttpxConnectTimeout", "HttpxReadTimeout"}

IsConnectionFailure(e) ==
    e.cls \in {"HttpxNetworkError", "HttpxConnectError", "ConnectionError",
               "ConnectionResetError"}

IsUpstreamStatus(e) == e.cls = "HTTPStatusError"

MentionsAuth(e) == e.text \in {"Authentication failed", "not authorized"}

ExpectedClass(e) ==
    CASE e.cls \in {"PermissionError", "ValueError", "JSONDecodeError"}
         /\ MentionsAuth(e) -> <<"authentication", "medium">>
      [] IsTimeout(e) -> <<"timeout", "medium">>
      [] IsUpstreamStatus(e) /\ e.status = 401 -> <<"authentication", "medium">>
      [] IsUpstreamStatus(e) /\ e.status = 403 -> <<"authorization", "medium">>
      [] IsUpstreamStatus(e) /\ e.status = 429 -> <<"rate_limit", "low">>
      [] IsUpstreamStatus(e) /\ e.status \in (400..499) \ {401, 403, 429}
            -> <<"validation", "low">>
      [] IsUpstreamStatus(e) /\ e.status \in 500..599 -> <<"azure_ml_error", "high">>
      [] e.cls = "CircuitBreakerError" -> <<"circuit_breaker", "high">>
      [] IsConnectionFailure(e) -> <<"network_error", "medium">>
      [] OTHER -> <<"unknown", "medium">>

ExpectedStatus(category) ==
    CASE category = "authentication"  -> 401
      [] category = "authorization"   -> 403
      [] category = "validation"      -> 400
      [] category = "timeout"         -> 408
      [] category = "rate_limit"      -> 429
      [] category = "azure_ml_error"  -> 502
      [] category \in {"network_error", "circuit_breaker"} -> 503
      [] category \in {"internal_error", "unknown"}        -> 500

\* C10: the response's status_code is the table's entry for its category and
\* retry_after is 60 exactly for rate_limit and circuit_breaker; an upstream
\* 429 gives status 429 with retry_after 60 and an upstream 503 gives 502
\* (the handler being given its own ErrorContext and none of its steps failing).
C10_StatusMapping ==
    /\ pure.op = "create_error_response"
       => (/\ pure.response.status_code = ExpectedStatus(pure.category)
           /\ pure.response.category = pure.category
           /\ IF pure.category \in {"rate_limit", "circuit_breaker"}
              THEN pure.response.retry_after = 60
              ELSE pure.response.retry_after = NoRetryAfter)
    /\ (/\ pure.op = "handle_prediction_error"
        /\ pure.context = ErrorContext
        /\ pure.fault = "none"
        /\ IsUpstreamStatus(pure.err))
       => (/\ pure.err.status = 429
              => (pure.response.status_code = 429 /\ pure.response.retry_after = 60)
           /\ pure.err.status = 503
              => (pure.response.status_code = 502
                  /\ pure.response.retry_after = NoRetryAfter))

C10_Witness ==
    /\ pure.op = "handle_prediction_error"
    /\ pure.context = ErrorContext
    /\ pure.fault = "none"
    /\ pure.err.cls = "HTTPStatusError"
    /\ pure.err.status = 503
    /\ pure.response.status_code = 502

\* C11: detail is the raw error text exactly when the severity is high or
\* critical; for low and medium severity detail is empty and the message is
\* the category's generic one, so the response built for any other error of
\* that category and severity has the same message and the same detail.
C11_DetailOnlyWhenSevere ==
    /\ pure.op = "create_error_response"
       => (/\ pure.severity \in {"high", "critical"}
              => pure.response.detail = pure.err.text
           /\ pure.severity \in {"low", "medium"}
              => (/\ pure.response.detail = NoDetail
                  /\ \A other \in Errors :
                        LET r == _create_error_response(other, pure.category,
                                                        pure.severity, pure.context)
                        IN  /\ r.message = pure.response.message
                            /\ r.detail = pure.response.detail))
    /\ (pure.op = "handle_prediction_error" /\ pure.raised = NoError)
       => (/\ pure.response.severity \in {"low", "medium"}
              => pure.response.detail = NoDetail
           /\ (pure.response.detail # NoDetail)
              => pure.response.severity \in {"high", "critical"})

C11_Witness ==
    /\ pure.op = "create_error_response"
    /\ pure.severity = "medium"
    /\ pure.category = "validation"
    /\ pure.err.text = "not authorized"
    /\ pure.response.detail = NoDetail
    /\ pure.response.message = "Invalid request data"

\* C12: every ErrorResponse returned by handle_prediction_error, from the try
\* block or from the except branch, has error_code = <CATEGORY>_<SEVERITY> of
\* its own category and severity.
C12_ErrorCodeFormat ==
    (pure.op = "handle_prediction_error" /\ pure.raised = NoError)
    => pure.response.error_code
          = upper(pure.response.category) \o "_" \o upper(pure.response.severity)

\* The response written out in the except branch.
IsHardcoded(r) ==
    /\ r.category = "internal_error"
    /\ r.severity = "critical"
    /\ r.status_code = 500

\* C13 as stated: handle_prediction_error never raises, and when any of its
\* five steps faults (the alert check included) it returns the hardcoded
\* internal_error / critical / 500 response.
C13_AnyFaultFallsBack ==
    pure.op = "handle_prediction_error"
    => (/\ pure.raised = NoError
        /\ pure.fault # "none" => IsHardcoded(pure.response))

\* C13 amended: handle_prediction_error never raises; when classification,
\* response creation, metrics recording or logging faults (logging does for
\* every context that is not an ErrorContext) it returns the hardcoded
\* internal_error / critical / 500 response with the context's request_id;
\* a fault of the alert check alone is swallowed and the classified response
\* is returned as if nothing had failed.
C13_FallbackExceptAlert ==
    pure.op = "handle_prediction_error"
    => (/\ pure.raised = NoError
        /\ pure.response.request_id = pure.context.request_id
        /\ IF pure.fault \in {"classify", "create", "metrics", "log"}
              \/ pure.context.type # "ErrorContext"
           THEN IsHardcoded(pure.response)
           ELSE /\ <<pure.response.category, pure.response.severity>>
                      = ExpectedClass(pure.err)
                /\ pure.response.status_code = ExpectedStatus(pure.response.category))

C13_Witness ==
    /\ pure.op = "handle_prediction_error"
    /\ pure.context = ErrorContext
    /\ pure.fault = "metrics"
    /\ pure.err.cls = "HTTPStatusError"
    /\ pure.err.status = 429
    /\ IsHardcoded(pure.response)
    /\ pure.response.detail = "metrics"

AuthValueError == Err("ValueError", "Authentication failed", 0)

====
